---- MODULE Spec2Model ----
(***************************************************************************)
(* A model of the linq iterator library (package linq).                    *)
(*                                                                         *)
(* An Iterator[TSource] is a Go push iterator: a function that receives a  *)
(* yield callback and calls it once per element until the elements run     *)
(* out or yield returns false.  Every operator wraps its source in a new   *)
(* function of that shape.  The model runs one pipeline                    *)
(*                                                                         *)
(*     FromSlice(xs) . stage 1 . stage 2 ... stage K . consumer            *)
(*                                                                         *)
(* as a token passed between neighbouring levels.  Level 0 is FromSlice,   *)
(* levels 1..K are the operators, level K+1 is the consumer (the loop body *)
(* of ToSlice, or of a consumer that returns early).  The token is one of  *)
(*     call  (downwards)  the level above starts ranging over the level    *)
(*     item  (upwards)    the level calls yield(val)                       *)
(*     ret   (downwards)  yield returns val (TRUE: the loop body finished  *)
(*                        or continued, FALSE: it returned or broke)       *)
(*     done  (upwards)    the iterator function returned                   *)
(* A terminal operation (First, Last, Single, SequenceEqual and their      *)
(* variants) is the consumer of the pipeline and returns a value; the      *)
(* sequence it pulls from with iter.Pull is a second traversal with a      *)
(* token of its own.                                                       *)
(* Elements are ints (the element type of every test of the repository),   *)
(* so the default equality (IEquatable, reflect, DeepEqual) is identity.   *)
(***************************************************************************)
EXTENDS Integers, Sequences, FiniteSets, TLC

\* ------------------------------------------------------------------ bounds
MaxLen == 3      \* longest source slice
MaxVal == 3      \* elements are 1..MaxVal
MaxArg == 2      \* second operands (sequence, elements) have at most MaxArg elements
MaxDepth == 2    \* operators stacked over FromSlice
MaxRuns == 2     \* traversals of the one iterator value
MaxPairVal == 2  \* elements of both operands of a two-sequence operator are 1..MaxPairVal

Values == 1..MaxVal

RECURSIVE SeqsUpTo(_, _)
SeqsUpTo(S, n) ==
    IF n = 0 THEN {<<>>}
    ELSE LET shorter == SeqsUpTo(S, n - 1)
         IN  shorter \cup {Append(s, v) : s \in {t \in shorter : Len(t) = n - 1}, v \in S}

Slices == SeqsUpTo(Values, MaxLen)
ArgSlices == SeqsUpTo(Values, MaxArg)
Counts == -1..(MaxLen + 1)

\* A predicate is the set of the values it holds of.
Predicates == SUBSET Values

\* ------------------------------------------------------ values of the model
\* An optional comparer argument: omitted ("none"), an explicit nil ("nil"),
\* or a function ("func"), given as the set rel of the pairs it answers true on.
NoComparer == [kind |-> "none", rel |-> {}]
NilComparer == [kind |-> "nil", rel |-> {}]
FuncComparer(R) == [kind |-> "func", rel |-> R]

IsEquivalence(R) ==
    /\ \A a \in Values : <<a, a>> \in R
    /\ \A a, b \in Values : <<a, b>> \in R => <<b, a>> \in R
    /\ \A a, b, c \in Values : (<<a, b>> \in R /\ <<b, c>> \in R) => <<a, c>> \in R

Equivalences == {R \in SUBSET (Values \X Values) : IsEquivalence(R)}

\* A value selector of Select, as a function on the values.
Selectors == {[v \in Values |-> (v % MaxVal) + 1], [v \in Values |-> 1]}

\* The locals of one invocation of an operator's function.
NewLocals == [phase |-> "src", buf |-> <<>>, aux |-> <<>>, i |-> 0, j |-> 0, flag |-> FALSE]

\* What one step of an operator does: the captured count afterwards, its
\* locals afterwards, the token it passes on, and how many elements it pulled
\* from its operand sequence in this step.
Step(count, l, kind, val, pulls) ==
    [count |-> count, l |-> l, kind |-> kind, val |-> val, pulls |-> pulls]

Stage(op, arg, pred, ys, cmp, sel) ==
    [count |-> arg, op |-> op, arg |-> arg, pred |-> pred, ys |-> ys, cmp |-> cmp, sel |-> sel]

NoSel == [v \in Values |-> v]

\* ------------------------------------------------------------ the source
\* FromSlice: for _, value := range source { if !yield(value) { return } }
\* idx is the number of elements the loop has passed.
FromSliceNext(slice, idx) ==
    IF idx < Len(slice)
    THEN [idx |-> idx, kind |-> "item", val |-> slice[idx + 1], emits |-> 1]
    ELSE [idx |-> idx, kind |-> "done", val |-> 0, emits |-> 0]

FromSlice(slice, idx, ev) ==
    CASE ev.kind = "call" -> FromSliceNext(slice, 0)
      [] ev.kind = "ret" /\ ev.val -> FromSliceNext(slice, idx + 1)
      [] ev.kind = "ret" /\ ~ev.val -> [idx |-> idx, kind |-> "done", val |-> 0, emits |-> 0]

\* The variables that the closure returned by Range(start, count) or by
\* Repeat(element, count) captured: it reads and writes the parameters
\* themselves.  args keeps the arguments of the call.
Generator(kind, start, count) ==
    [kind |-> kind, count |-> count, start |-> start, args |-> <<start, count>>]
NoGenerator == Generator("none", 0, 0)

\* for count > 0 { if !yield(start) { return } ...
GeneratorLoop(g) ==
    IF g.count > 0
    THEN [g |-> g, kind |-> "item", val |-> g.start, emits |-> 1]
    ELSE [g |-> g, kind |-> "done", val |-> 0, emits |-> 0]

\* ... start++; count-- }
Range(g, ev) ==
    CASE ev.kind = "call" -> GeneratorLoop(g)
      [] ev.kind = "ret" /\ ev.val ->
            GeneratorLoop([g EXCEPT !.start = g.start + 1, !.count = g.count - 1])
      [] ev.kind = "ret" /\ ~ev.val -> [g |-> g, kind |-> "done", val |-> 0, emits |-> 0]

\* Repeat(element, count): g.start is the element.  ... count-- }
Repeat(g, ev) ==
    CASE ev.kind = "call" -> GeneratorLoop(g)
      [] ev.kind = "ret" /\ ev.val -> GeneratorLoop([g EXCEPT !.count = g.count - 1])
      [] ev.kind = "ret" /\ ~ev.val -> [g |-> g, kind |-> "done", val |-> 0, emits |-> 0]

\* ------------------------------------------------- the element operators
\* A loop body that hands yield's answer straight back to the source loop:
\* if !yield(item) { return }.
PassRet(st, l, ev) == Step(st.count, l, "ret", ev.val, 0)

\* Where without the test of predicate: every element is yielded.
WhereAll(st, l, ev) ==
    CASE ev.kind = "new" -> Step(st.count, l, "idle", 0, 0)
      [] ev.kind = "call" -> Step(st.count, NewLocals, "call", 0, 0)
      [] ev.kind = "item" -> Step(st.count, l, "item", ev.val, 0)
      [] ev.kind = "ret" -> PassRet(st, l, ev)
      [] ev.kind = "done" -> Step(st.count, l, "done", 0, 0)

Where(st, l, ev) ==
    CASE ev.kind = "new" -> Step(st.count, l, "idle", 0, 0)
      [] ev.kind = "call" -> Step(st.count, NewLocals, "call", 0, 0)
      [] ev.kind = "item" ->
            IF ev.val \in st.pred
            THEN Step(st.count, l, "item", ev.val, 0)
            ELSE Step(st.count, l, "ret", TRUE, 0)
      [] ev.kind = "ret" -> PassRet(st, l, ev)
      [] ev.kind = "done" -> Step(st.count, l, "done", 0, 0)

Select(st, l, ev) ==
    CASE ev.kind = "new" -> Step(st.count, l, "idle", 0, 0)
      [] ev.kind = "call" -> Step(st.count, NewLocals, "call", 0, 0)
      [] ev.kind = "item" -> Step(st.count, l, "item", st.sel[ev.val], 0)
      [] ev.kind = "ret" -> PassRet(st, l, ev)
      [] ev.kind = "done" -> Step(st.count, l, "done", 0, 0)

\* Skip with the test count >= 0 in place of count > 0: it skips one element more.
SkipOneMore(st, l, ev) ==
    CASE ev.kind = "new" -> Step(st.count, l, "idle", 0, 0)
      [] ev.kind = "call" -> Step(st.count, NewLocals, "call", 0, 0)
      [] ev.kind = "item" ->
            IF st.count >= 0
            THEN Step(st.count - 1, l, "ret", TRUE, 0)
            ELSE Step(st.count, l, "item", ev.val, 0)
      [] ev.kind = "ret" -> PassRet(st, l, ev)
      [] ev.kind = "done" -> Step(st.count, l, "done", 0, 0)

\* count is the parameter of Skip, captured by the returned function and
\* decremented by it.
Skip(st, l, ev) ==
    CASE ev.kind = "new" -> Step(st.count, l, "idle", 0, 0)
      [] ev.kind = "call" -> Step(st.count, NewLocals, "call", 0, 0)
      [] ev.kind = "item" ->
            IF st.count > 0
            THEN Step(st.count - 1, l, "ret", TRUE, 0)
            ELSE Step(st.count, l, "item", ev.val, 0)
      [] ev.kind = "ret" -> PassRet(st, l, ev)
      [] ev.kind = "done" -> Step(st.count, l, "done", 0, 0)

Take(st, l, ev) ==
    CASE ev.kind = "new" -> Step(st.count, l, "idle", 0, 0)
      [] ev.kind = "call" -> Step(st.count, NewLocals, "call", 0, 0)
      [] ev.kind = "item" ->
            IF st.count <= 0
            THEN Step(st.count, l, "ret", FALSE, 0)
            ELSE Step(st.count, l, "item", ev.val, 0)
      [] ev.kind = "ret" ->
            IF ev.val
            THEN Step(st.count - 1, l, "ret", TRUE, 0)
            ELSE Step(st.count, l, "ret", FALSE, 0)
      [] ev.kind = "done" -> Step(st.count, l, "done", 0, 0)

TakeWhile(st, l, ev) ==
    CASE ev.kind = "new" -> Step(st.count, l, "idle", 0, 0)
      [] ev.kind = "call" -> Step(st.count, NewLocals, "call", 0, 0)
      [] ev.kind = "item" ->
            IF ev.val \in st.pred
            THEN Step(st.count, l, "ret", FALSE, 0)
            ELSE Step(st.count, l, "item", ev.val, 0)
      [] ev.kind = "ret" -> PassRet(st, l, ev)
      [] ev.kind = "done" -> Step(st.count, l, "done", 0, 0)

\* SkipWhile with the test skip && predicate(item): it skips while the
\* predicate holds.
SkipWhileHolds(st, l, ev) ==
    CASE ev.kind = "new" -> Step(st.count, l, "idle", 0, 0)
      [] ev.kind = "call" -> Step(st.count, [NewLocals EXCEPT !.flag = TRUE], "call", 0, 0)
      [] ev.kind = "item" ->
            IF l.flag /\ ev.val \in st.pred
            THEN Step(st.count, l, "ret", TRUE, 0)
            ELSE Step(st.count, [l EXCEPT !.flag = FALSE], "item", ev.val, 0)
      [] ev.kind = "ret" -> PassRet(st, l, ev)
      [] ev.kind = "done" -> Step(st.count, l, "done", 0, 0)

\* l.flag is the local skip, set to true when the function starts.
SkipWhile(st, l, ev) ==
    CASE ev.kind = "new" -> Step(st.count, l, "idle", 0, 0)
      [] ev.kind = "call" -> Step(st.count, [NewLocals EXCEPT !.flag = TRUE], "call", 0, 0)
      [] ev.kind = "item" ->
            IF l.flag /\ ~(ev.val \in st.pred)
            THEN Step(st.count, l, "ret", TRUE, 0)
            ELSE Step(st.count, [l EXCEPT !.flag = FALSE], "item", ev.val, 0)
      [] ev.kind = "ret" -> PassRet(st, l, ev)
      [] ev.kind = "done" -> Step(st.count, l, "done", 0, 0)

\* The loop that follows the loop over source: for _, e := range second
\* { if !yield(e) { return } }.  pull is 1 when second is an iterator
\* (each element is pulled from it) and 0 when it is a plain slice.
SecondLoop(st, l, i, pull) ==
    IF i <= Len(st.ys)
    THEN Step(st.count, [l EXCEPT !.phase = "seq", !.i = i], "item", st.ys[i], pull)
    ELSE Step(st.count, l, "done", 0, 0)

\* Concat with break in place of return in its first loop: the second loop
\* still runs after yield returned false.
ConcatBreak(st, l, ev) ==
    CASE ev.kind = "new" -> Step(st.count, l, "idle", 0, 0)
      [] ev.kind = "call" -> Step(st.count, NewLocals, "call", 0, 0)
      [] ev.kind = "item" -> Step(st.count, l, "item", ev.val, 0)
      [] ev.kind = "ret" /\ l.phase = "src" -> Step(st.count, l, "ret", ev.val, 0)
      [] ev.kind = "done" -> SecondLoop(st, l, 1, 1)
      [] ev.kind = "ret" /\ l.phase = "seq" ->
            IF ev.val THEN SecondLoop(st, l, l.i + 1, 1) ELSE Step(st.count, l, "done", 0, 0)

\* l.flag records that the first loop was left by return.
Concat(st, l, ev) ==
    CASE ev.kind = "new" -> Step(st.count, l, "idle", 0, 0)
      [] ev.kind = "call" -> Step(st.count, NewLocals, "call", 0, 0)
      [] ev.kind = "item" -> Step(st.count, l, "item", ev.val, 0)
      [] ev.kind = "ret" /\ l.phase = "src" ->
            Step(st.count, [l EXCEPT !.flag = ~ev.val], "ret", ev.val, 0)
      [] ev.kind = "done" ->
            IF l.flag THEN Step(st.count, l, "done", 0, 0) ELSE SecondLoop(st, l, 1, 1)
      [] ev.kind = "ret" /\ l.phase = "seq" ->
            IF ev.val THEN SecondLoop(st, l, l.i + 1, 1) ELSE Step(st.count, l, "done", 0, 0)

Append_(st, l, ev) ==
    CASE ev.kind = "new" -> Step(st.count, l, "idle", 0, 0)
      [] ev.kind = "call" -> Step(st.count, NewLocals, "call", 0, 0)
      [] ev.kind = "item" -> Step(st.count, l, "item", ev.val, 0)
      [] ev.kind = "ret" /\ l.phase = "src" ->
            Step(st.count, [l EXCEPT !.flag = ~ev.val], "ret", ev.val, 0)
      [] ev.kind = "done" ->
            IF l.flag THEN Step(st.count, l, "done", 0, 0) ELSE SecondLoop(st, l, 1, 0)
      [] ev.kind = "ret" /\ l.phase = "seq" ->
            IF ev.val THEN SecondLoop(st, l, l.i + 1, 0) ELSE Step(st.count, l, "done", 0, 0)

\* The loop over elements comes first; the loop over source starts after it.
PrependLoop(st, l, i) ==
    IF i <= Len(st.ys)
    THEN Step(st.count, [l EXCEPT !.phase = "pre", !.i = i], "item", st.ys[i], 0)
    ELSE Step(st.count, [l EXCEPT !.phase = "src"], "call", 0, 0)

\* Prepend with its two loops in Append's order: source first, elements after.
PrependAfter(st, l, ev) == Append_(st, l, ev)

Prepend(st, l, ev) ==
    CASE ev.kind = "new" -> Step(st.count, l, "idle", 0, 0)
      [] ev.kind = "call" -> PrependLoop(st, NewLocals, 1)
      [] ev.kind = "ret" /\ l.phase = "pre" ->
            IF ev.val THEN PrependLoop(st, l, l.i + 1) ELSE Step(st.count, l, "done", 0, 0)
      [] ev.kind = "item" -> Step(st.count, l, "item", ev.val, 0)
      [] ev.kind = "ret" /\ l.phase = "src" -> PassRet(st, l, ev)
      [] ev.kind = "done" -> Step(st.count, l, "done", 0, 0)

\* --------------------------------------------------------- equality, sets
\* The equality Contains resolves: the comparer when one is given and is not
\* nil, else the default equality, which is identity on ints.
Equal(cmp, item, value) ==
    IF cmp.kind = "func" THEN <<item, value>> \in cmp.rel ELSE item = value

Contains(slice, value, cmp) == \E k \in 1..Len(slice) : Equal(cmp, slice[k], value)

\* Distinct's first loop with the test compared against the last kept
\* element only, so a repeat that is not adjacent is kept.
DistinctAdjacent(result, item, cmp) ==
    IF result = <<>> \/ ~Equal(cmp, result[Len(result)], item) THEN Append(result, item) ELSE result

\* The body of Distinct's first loop.
DistinctAdd(result, item, cmp) ==
    IF ~Contains(result, item, cmp) THEN Append(result, item) ELSE result

\* for _, item := range buf { if !yield(item) { return } }
EmitBuf(st, l, i) ==
    IF i <= Len(l.buf)
    THEN Step(st.count, [l EXCEPT !.phase = "emit", !.i = i], "item", l.buf[i], 0)
    ELSE Step(st.count, l, "done", 0, 0)

\* Distinct that collects its source when it is built, not when it is ranged over.
DistinctEager(st, l, ev) ==
    CASE ev.kind = "new" -> Step(st.count, [NewLocals EXCEPT !.phase = "collect"], "call", 0, 0)
      [] ev.kind = "call" -> Step(st.count, [NewLocals EXCEPT !.phase = "collect"], "call", 0, 0)
      [] ev.kind = "item" ->
            Step(st.count, [l EXCEPT !.buf = DistinctAdd(l.buf, ev.val, st.cmp)], "ret", TRUE, 0)
      [] ev.kind = "done" -> EmitBuf(st, l, 1)
      [] ev.kind = "ret" ->
            IF ev.val THEN EmitBuf(st, l, l.i + 1) ELSE Step(st.count, l, "done", 0, 0)

Distinct(st, l, ev) ==
    CASE ev.kind = "new" -> Step(st.count, l, "idle", 0, 0)
      [] ev.kind = "call" -> Step(st.count, [NewLocals EXCEPT !.phase = "collect"], "call", 0, 0)
      [] ev.kind = "item" ->
            Step(st.count, [l EXCEPT !.buf = DistinctAdd(l.buf, ev.val, st.cmp)], "ret", TRUE, 0)
      [] ev.kind = "done" -> EmitBuf(st, l, 1)
      [] ev.kind = "ret" ->
            IF ev.val THEN EmitBuf(st, l, l.i + 1) ELSE Step(st.count, l, "done", 0, 0)

\* What ranging over FromSlice(slice).Distinct(cmp) yields when it runs to its end.
RECURSIVE DistinctFold(_, _, _)
DistinctFold(slice, cmp, result) ==
    IF slice = <<>> THEN result
    ELSE DistinctFold(Tail(slice), cmp, DistinctAdd(result, Head(slice), cmp))

DistinctSlice(slice, cmp) == DistinctFold(slice, cmp, <<>>)

\* Union's second loop, over sequence.Distinct(): l.aux holds its elements,
\* and each is looked up by source.Contains, which ranges over source.
UnionSecond(st, l, j, pulls) ==
    IF j <= Len(l.aux)
    THEN Step(st.count, [l EXCEPT !.phase = "contains", !.j = j, !.flag = FALSE], "call", 0, pulls)
    ELSE Step(st.count, l, "done", 0, pulls)

\* Union's first loop, over source.Distinct(): l.buf holds its elements.
UnionFirst(st, l, i) ==
    IF i <= Len(l.buf)
    THEN Step(st.count, [l EXCEPT !.phase = "emit1", !.i = i], "item", l.buf[i], 0)
    ELSE UnionSecond(st, [l EXCEPT !.aux = DistinctSlice(st.ys, st.cmp)], 1, Len(st.ys))

\* Union without the source.Contains test: every distinct element of
\* sequence follows the distinct elements of source.
UnionAll(st, l, ev) ==
    CASE ev.kind = "new" -> Step(st.count, l, "idle", 0, 0)
      [] ev.kind = "call" -> Step(st.count, [NewLocals EXCEPT !.phase = "collect"], "call", 0, 0)
      [] ev.kind = "item" /\ l.phase = "collect" ->
            Step(st.count, [l EXCEPT !.buf = DistinctAdd(l.buf, ev.val, st.cmp)], "ret", TRUE, 0)
      [] ev.kind = "done" /\ l.phase = "collect" -> UnionFirst(st, l, 1)
      [] ev.kind = "ret" /\ l.phase = "emit1" ->
            IF ev.val THEN UnionFirst(st, l, l.i + 1) ELSE Step(st.count, l, "done", 0, 0)
      [] ev.kind = "item" /\ l.phase = "contains" -> Step(st.count, l, "ret", TRUE, 0)
      [] ev.kind = "done" /\ l.phase = "contains" ->
            Step(st.count, [l EXCEPT !.phase = "emit2"], "item", l.aux[l.j], 0)
      [] ev.kind = "ret" /\ l.phase = "emit2" ->
            IF ev.val THEN UnionSecond(st, l, l.j + 1, 0) ELSE Step(st.count, l, "done", 0, 0)

Union(st, l, ev) ==
    CASE ev.kind = "new" -> Step(st.count, l, "idle", 0, 0)
      [] ev.kind = "call" -> Step(st.count, [NewLocals EXCEPT !.phase = "collect"], "call", 0, 0)
      [] ev.kind = "item" /\ l.phase = "collect" ->
            Step(st.count, [l EXCEPT !.buf = DistinctAdd(l.buf, ev.val, st.cmp)], "ret", TRUE, 0)
      [] ev.kind = "done" /\ l.phase = "collect" -> UnionFirst(st, l, 1)
      [] ev.kind = "ret" /\ l.phase = "emit1" ->
            IF ev.val THEN UnionFirst(st, l, l.i + 1) ELSE Step(st.count, l, "done", 0, 0)
      [] ev.kind = "item" /\ l.phase = "contains" ->
            IF Equal(st.cmp, ev.val, l.aux[l.j])
            THEN Step(st.count, [l EXCEPT !.flag = TRUE], "ret", FALSE, 0)
            ELSE Step(st.count, l, "ret", TRUE, 0)
      [] ev.kind = "done" /\ l.phase = "contains" ->
            IF l.flag
            THEN UnionSecond(st, l, l.j + 1, 0)
            ELSE Step(st.count, [l EXCEPT !.phase = "emit2"], "item", l.aux[l.j], 0)
      [] ev.kind = "ret" /\ l.phase = "emit2" ->
            IF ev.val THEN UnionSecond(st, l, l.j + 1, 0) ELSE Step(st.count, l, "done", 0, 0)

\* The nested loops of Except: item is l.buf[i] of source.Distinct(), other is
\* element j of sequence.Distinct(), collected again for every item.  With
\* len(comparer) > 0 the comparer is called as it is, also when it is nil.
RECURSIVE ExceptScan(_, _, _, _, _)
ExceptScan(st, l, i, j, pulls) ==
    LET others == DistinctSlice(st.ys, st.cmp)
        pulled == IF j = 1 THEN pulls + Len(st.ys) ELSE pulls
    IN  IF i > Len(l.buf) THEN Step(st.count, l, "done", 0, pulls)
        ELSE IF j > Len(others) THEN ExceptScan(st, l, i + 1, 1, pulled)
        ELSE IF st.cmp.kind = "nil" THEN Step(st.count, l, "panic", 0, pulled)
        ELSE IF Equal(st.cmp, l.buf[i], others[j])
             THEN Step(st.count, [l EXCEPT !.phase = "emit", !.i = i, !.j = j], "item", l.buf[i], pulled)
             ELSE ExceptScan(st, l, i, j + 1, pulled)

Except(st, l, ev) ==
    CASE ev.kind = "new" -> Step(st.count, l, "idle", 0, 0)
      [] ev.kind = "call" -> Step(st.count, [NewLocals EXCEPT !.phase = "collect"], "call", 0, 0)
      [] ev.kind = "item" ->
            Step(st.count, [l EXCEPT !.buf = DistinctAdd(l.buf, ev.val, st.cmp)], "ret", TRUE, 0)
      [] ev.kind = "done" -> ExceptScan(st, l, 1, 1, 0)
      [] ev.kind = "ret" ->
            IF ev.val THEN ExceptScan(st, l, l.i, l.j + 1, 0) ELSE Step(st.count, l, "done", 0, 0)

RECURSIVE IntersectScan(_, _, _, _, _)
IntersectScan(st, l, i, j, pulls) ==
    LET others == DistinctSlice(st.ys, st.cmp)
        pulled == IF j = 1 THEN pulls + Len(st.ys) ELSE pulls
    IN  IF i > Len(l.buf) THEN Step(st.count, l, "done", 0, pulls)
        ELSE IF j > Len(others) THEN IntersectScan(st, l, i + 1, 1, pulled)
        ELSE IF st.cmp.kind = "nil" THEN Step(st.count, l, "panic", 0, pulled)
        ELSE IF Equal(st.cmp, l.buf[i], others[j])
             THEN Step(st.count, [l EXCEPT !.phase = "emit", !.i = i, !.j = j], "item", l.buf[i], pulled)
             ELSE IntersectScan(st, l, i, j + 1, pulled)

\* Intersect ranging over source itself instead of source.Distinct(): an
\* element that occurs twice in source is matched twice.
IntersectAll(st, l, ev) ==
    CASE ev.kind = "new" -> Step(st.count, l, "idle", 0, 0)
      [] ev.kind = "call" -> Step(st.count, [NewLocals EXCEPT !.phase = "collect"], "call", 0, 0)
      [] ev.kind = "item" ->
            Step(st.count, [l EXCEPT !.buf = Append(l.buf, ev.val)], "ret", TRUE, 0)
      [] ev.kind = "done" -> IntersectScan(st, l, 1, 1, 0)
      [] ev.kind = "ret" ->
            IF ev.val THEN IntersectScan(st, l, l.i, l.j + 1, 0) ELSE Step(st.count, l, "done", 0, 0)

Intersect(st, l, ev) ==
    CASE ev.kind = "new" -> Step(st.count, l, "idle", 0, 0)
      [] ev.kind = "call" -> Step(st.count, [NewLocals EXCEPT !.phase = "collect"], "call", 0, 0)
      [] ev.kind = "item" ->
            Step(st.count, [l EXCEPT !.buf = DistinctAdd(l.buf, ev.val, st.cmp)], "ret", TRUE, 0)
      [] ev.kind = "done" -> IntersectScan(st, l, 1, 1, 0)
      [] ev.kind = "ret" ->
            IF ev.val THEN IntersectScan(st, l, l.i, l.j + 1, 0) ELSE Step(st.count, l, "done", 0, 0)

\* ------------------------------------------------- the trailing windows
\* count = source.Count() - count: the function first ranges over source to
\* count it (l.i is Count's result so far), stores the difference in the
\* captured count, and then ranges over source again.
SkipLast(st, l, ev) ==
    CASE ev.kind = "new" -> Step(st.count, l, "idle", 0, 0)
      [] ev.kind = "call" -> Step(st.count, [NewLocals EXCEPT !.phase = "count"], "call", 0, 0)
      [] ev.kind = "item" /\ l.phase = "count" ->
            Step(st.count, [l EXCEPT !.i = l.i + 1], "ret", TRUE, 0)
      [] ev.kind = "done" /\ l.phase = "count" ->
            Step(l.i - st.count, [l EXCEPT !.phase = "main"], "call", 0, 0)
      [] ev.kind = "item" /\ l.phase = "main" ->
            IF st.count <= 0
            THEN Step(st.count, l, "ret", FALSE, 0)
            ELSE Step(st.count, l, "item", ev.val, 0)
      [] ev.kind = "ret" ->
            IF ev.val
            THEN Step(st.count - 1, l, "ret", TRUE, 0)
            ELSE Step(st.count, l, "ret", FALSE, 0)
      [] ev.kind = "done" /\ l.phase = "main" -> Step(st.count, l, "done", 0, 0)

\* TakeLast with count = count - source.Count(): the difference the wrong way round.
TakeLastSwapped(st, l, ev) ==
    CASE ev.kind = "new" -> Step(st.count, l, "idle", 0, 0)
      [] ev.kind = "call" -> Step(st.count, [NewLocals EXCEPT !.phase = "count"], "call", 0, 0)
      [] ev.kind = "item" /\ l.phase = "count" ->
            Step(st.count, [l EXCEPT !.i = l.i + 1], "ret", TRUE, 0)
      [] ev.kind = "done" /\ l.phase = "count" ->
            Step(st.count - l.i, [l EXCEPT !.phase = "main"], "call", 0, 0)
      [] ev.kind = "item" /\ l.phase = "main" ->
            IF st.count > 0
            THEN Step(st.count - 1, l, "ret", TRUE, 0)
            ELSE Step(st.count, l, "item", ev.val, 0)
      [] ev.kind = "ret" -> PassRet(st, l, ev)
      [] ev.kind = "done" /\ l.phase = "main" -> Step(st.count, l, "done", 0, 0)

TakeLast(st, l, ev) ==
    CASE ev.kind = "new" -> Step(st.count, l, "idle", 0, 0)
      [] ev.kind = "call" -> Step(st.count, [NewLocals EXCEPT !.phase = "count"], "call", 0, 0)
      [] ev.kind = "item" /\ l.phase = "count" ->
            Step(st.count, [l EXCEPT !.i = l.i + 1], "ret", TRUE, 0)
      [] ev.kind = "done" /\ l.phase = "count" ->
            Step(l.i - st.count, [l EXCEPT !.phase = "main"], "call", 0, 0)
      [] ev.kind = "item" /\ l.phase = "main" ->
            IF st.count > 0
            THEN Step(st.count - 1, l, "ret", TRUE, 0)
            ELSE Step(st.count, l, "item", ev.val, 0)
      [] ev.kind = "ret" -> PassRet(st, l, ev)
      [] ev.kind = "done" /\ l.phase = "main" -> Step(st.count, l, "done", 0, 0)

\* ------------------------------------------------- reversing and sorting
\* for i := len(reverse); i >= 0; i-- { if !yield(reverse[i]) { return } }
\* i is the Go index (from 0); an index outside 0..len-1 panics.
ReverseLoop(st, l, i) ==
    IF i >= 0
    THEN IF i < Len(l.buf)
         THEN Step(st.count, [l EXCEPT !.phase = "emit", !.i = i], "item", l.buf[i + 1], 0)
         ELSE Step(st.count, l, "panic", 0, 0)
    ELSE Step(st.count, l, "done", 0, 0)

Reverse(st, l, ev) ==
    CASE ev.kind = "new" -> Step(st.count, l, "idle", 0, 0)
      [] ev.kind = "call" -> Step(st.count, [NewLocals EXCEPT !.phase = "collect"], "call", 0, 0)
      [] ev.kind = "item" -> Step(st.count, [l EXCEPT !.buf = Append(l.buf, ev.val)], "ret", TRUE, 0)
      [] ev.kind = "done" -> ReverseLoop(st, l, Len(l.buf))
      [] ev.kind = "ret" ->
            IF ev.val THEN ReverseLoop(st, l, l.i - 1) ELSE Step(st.count, l, "done", 0, 0)

\* ---------------------------------------------------------------- Order
\* A generic.Comparison given to Order, Min, Max, ...: compare ...Comparison.
\* kind is "none" when len(compare) = 0, "nil" when compare[0] is nil; order
\* names the order a given function computes ("parity" finds two values of
\* the same parity equal).
NoComparison == [kind |-> "none", order |-> "ascending"]
NilComparison == [kind |-> "nil", order |-> "ascending"]
FuncComparison(o) == [kind |-> "func", order |-> o]

\* compare[0](a, b)
Compare(c, a, b) ==
    CASE c.order = "ascending" -> a - b
      [] c.order = "descending" -> b - a
      [] c.order = "parity" -> (a % 2) - (b % 2)

\* sort[TSource, int]: slices.SortFunc with cmp.Compare on ints.
RECURSIVE InsertSorted(_, _)
InsertSorted(s, v) ==
    IF s = <<>> THEN <<v>>
    ELSE IF v < Head(s) THEN <<v>> \o s
    ELSE <<Head(s)>> \o InsertSorted(Tail(s), v)

RECURSIVE sort(_)
sort(s) == IF s = <<>> THEN <<>> ELSE InsertSorted(sort(SubSeq(s, 1, Len(s) - 1)), s[Len(s)])

\* reverse(s): s back to front.
Backwards(s) == [i \in 1..Len(s) |-> s[Len(s) + 1 - i]]

\* Elements that cmp.Compare finds equal are the same value: the one
\* non-increasing arrangement is the non-decreasing one back to front.
sortDescending(s) == Backwards(sort(s))

\* The ways to arrange n elements.
Arrangements(n) == {p \in [1..n -> 1..n] : \A i, j \in 1..n : i # j => p[i] # p[j]}

\* slices.SortFunc(s, cmp) sorts s in place and is "not guaranteed to be
\* stable": it leaves one of the arrangements of s that cmp finds in order.
\* inOrder is the set of the pairs <<x, y>> with cmp(x, y) <= 0.
SortFunc(s, inOrder) ==
    {[i \in 1..Len(s) |-> s[p[i]]] :
        p \in {q \in Arrangements(Len(s)) :
                 \A i \in 1..(Len(s) - 1) : <<s[q[i]], s[q[i + 1]]>> \in inOrder}}

\* The pairs of elements of buf.
Pairs(buf) == {buf[i] : i \in 1..Len(buf)} \X {buf[i] : i \in 1..Len(buf)}

\* What the sort of an ordering operator can leave in its buffer.  A nil
\* comparer is called once there are two elements to compare.
Sorted(st, buf) ==
    CASE st.cmp.kind = "nil" -> {buf}
      [] st.op = "Order" /\ st.cmp.kind = "none" -> {sort(buf)}
      [] st.op = "Order" /\ st.cmp.kind = "func" ->
            SortFunc(buf, {pr \in Pairs(buf) : Compare(st.cmp, pr[1], pr[2]) <= 0})
      [] st.op = "OrderDescending" /\ st.cmp.kind = "none" -> {sortDescending(buf)}
      [] st.op = "OrderDescending" /\ st.cmp.kind = "func" ->
            SortFunc(buf, {pr \in Pairs(buf) : Compare(st.cmp, pr[2], pr[1]) <= 0})
      [] st.op = "OrderBy" /\ st.cmp.kind = "none" ->
            SortFunc(buf, {pr \in Pairs(buf) : pr[1][2] - pr[2][2] <= 0})
      [] st.op = "OrderBy" /\ st.cmp.kind = "func" ->
            SortFunc(buf, {pr \in Pairs(buf) : Compare(st.cmp, pr[1][2], pr[2][2]) <= 0})
      [] st.op = "OrderByDescending" /\ st.cmp.kind = "none" ->
            SortFunc(buf, {pr \in Pairs(buf) : pr[2][2] - pr[1][2] <= 0})
      [] st.op = "OrderByDescending" /\ st.cmp.kind = "func" ->
            SortFunc(buf, {pr \in Pairs(buf) : Compare(st.cmp, pr[2][2], pr[1][2]) <= 0})

\* The outcomes of the step that the operator st takes on the event ev.
Outcomes(st, l, ev) ==
    IF ev.kind = "done" /\ st.op \in {"Order", "OrderDescending", "OrderBy", "OrderByDescending"}
    THEN Sorted(st, l.buf)
    ELSE {<<>>}

\* The event ev with the outcome pick.
Event(ev, pick) == [kind |-> ev.kind, val |-> ev.val, pick |-> pick]

\* The buffer is collected, sorted (ev.pick) and emitted.
Ordering(st, l, ev) ==
    CASE ev.kind = "new" -> Step(st.count, l, "idle", 0, 0)
      [] ev.kind = "call" -> Step(st.count, [NewLocals EXCEPT !.phase = "collect"], "call", 0, 0)
      [] ev.kind = "item" -> Step(st.count, [l EXCEPT !.buf = Append(l.buf, ev.val)], "ret", TRUE, 0)
      [] ev.kind = "done" ->
            IF st.cmp.kind = "nil" /\ Len(l.buf) >= 2
            THEN Step(st.count, l, "panic", 0, 0)
            ELSE EmitBuf(st, [l EXCEPT !.buf = ev.pick], 1)
      [] ev.kind = "ret" ->
            IF ev.val THEN EmitBuf(st, l, l.i + 1) ELSE Step(st.count, l, "done", 0, 0)

\* Order that yields its buffer as it was collected.
OrderAsCollected(st, l, ev) ==
    Ordering(st, l, IF ev.kind = "done" THEN Event(ev, l.buf) ELSE ev)

Order(st, l, ev) == Ordering(st, l, ev)

OrderDescending(st, l, ev) == Ordering(st, l, ev)

\* yield(item.Item1) for the i-th pair of the buffer.
EmitItem1(st, l, i) ==
    IF i <= Len(l.buf)
    THEN Step(st.count, [l EXCEPT !.phase = "emit", !.i = i], "item", l.buf[i][1], 0)
    ELSE Step(st.count, l, "done", 0, 0)

\* The buffer holds generic.ValuePair{Item1: item, Item2: valueSelector(item)}.
OrderingBy(st, l, ev) ==
    CASE ev.kind = "new" -> Step(st.count, l, "idle", 0, 0)
      [] ev.kind = "call" -> Step(st.count, [NewLocals EXCEPT !.phase = "collect"], "call", 0, 0)
      [] ev.kind = "item" ->
            Step(st.count, [l EXCEPT !.buf = Append(l.buf, <<ev.val, st.sel[ev.val]>>)], "ret", TRUE, 0)
      [] ev.kind = "done" ->
            IF st.cmp.kind = "nil" /\ Len(l.buf) >= 2
            THEN Step(st.count, l, "panic", 0, 0)
            ELSE EmitItem1(st, [l EXCEPT !.buf = ev.pick], 1)
      [] ev.kind = "ret" ->
            IF ev.val THEN EmitItem1(st, l, l.i + 1) ELSE Step(st.count, l, "done", 0, 0)

OrderBy(st, l, ev) == OrderingBy(st, l, ev)

OrderByDescending(st, l, ev) == OrderingBy(st, l, ev)

\* ------------------------------------------------------------------ Zip
\* next, stop := iter.Pull(sequence): l.i is the number of elements next()
\* has pulled from sequence so far.
\* Zip with Item1 and Item2 filled the wrong way round.
ZipSwapped(st, l, ev) ==
    CASE ev.kind = "new" -> Step(st.count, l, "idle", 0, 0)
      [] ev.kind = "call" -> Step(st.count, NewLocals, "call", 0, 0)
      [] ev.kind = "item" ->
            IF l.i < Len(st.ys)
            THEN Step(st.count, [l EXCEPT !.i = l.i + 1], "item", <<st.ys[l.i + 1], ev.val>>, 1)
            ELSE Step(st.count, l, "ret", FALSE, 0)
      [] ev.kind = "ret" -> PassRet(st, l, ev)
      [] ev.kind = "done" -> Step(st.count, l, "done", 0, 0)

Zip(st, l, ev) ==
    CASE ev.kind = "new" -> Step(st.count, l, "idle", 0, 0)
      [] ev.kind = "call" -> Step(st.count, NewLocals, "call", 0, 0)
      [] ev.kind = "item" ->
            IF l.i < Len(st.ys)
            THEN Step(st.count, [l EXCEPT !.i = l.i + 1], "item", <<ev.val, st.ys[l.i + 1]>>, 1)
            ELSE Step(st.count, l, "ret", FALSE, 0)
      [] ev.kind = "ret" -> PassRet(st, l, ev)
      [] ev.kind = "done" -> Step(st.count, l, "done", 0, 0)

\* ------------------------------------------------------------- dispatch
Operator(st, l, ev) ==
    CASE st.op = "Where" -> Where(st, l, ev)
      [] st.op = "Select" -> Select(st, l, ev)
      [] st.op = "Skip" -> Skip(st, l, ev)
      [] st.op = "Take" -> Take(st, l, ev)
      [] st.op = "TakeWhile" -> TakeWhile(st, l, ev)
      [] st.op = "SkipWhile" -> SkipWhile(st, l, ev)
      [] st.op = "Concat" -> Concat(st, l, ev)
      [] st.op = "Append" -> Append_(st, l, ev)
      [] st.op = "Prepend" -> Prepend(st, l, ev)
      [] st.op = "Distinct" -> Distinct(st, l, ev)
      [] st.op = "Union" -> Union(st, l, ev)
      [] st.op = "Except" -> Except(st, l, ev)
      [] st.op = "Intersect" -> Intersect(st, l, ev)
      [] st.op = "SkipLast" -> SkipLast(st, l, ev)
      [] st.op = "TakeLast" -> TakeLast(st, l, ev)
      [] st.op = "Reverse" -> Reverse(st, l, ev)
      [] st.op = "Order" -> Order(st, l, ev)
      [] st.op = "OrderDescending" -> OrderDescending(st, l, ev)
      [] st.op = "OrderBy" -> OrderBy(st, l, ev)
      [] st.op = "OrderByDescending" -> OrderByDescending(st, l, ev)
      [] st.op = "Zip" -> Zip(st, l, ev)

\* =================================================== terminal operations
\* A terminal operation ranges over the pipeline as its consumer and returns
\* a value.  Its loop body is the "item" case of its definition, the
\* statements after its loop the "done" case.  t holds its arguments and
\* locals; TStep(t, go) is the body's outcome: go is what yield returns
\* (FALSE when the body returned from the function).
ErrNil == "nil"
ErrSourceContainsNoElements == "the source contains no elements"
ErrNoElementSatisfiesTheConditionInPredicate == "no element satisfies the condition in predicate"
ErrMoreThanOneElementSatisfiesTheConditionInPredicate == "more than one element satisfies the condition in predicate"
ErrSourceHasMoreThanOneElement == "the source has more than one element"
ErrIndexOutOfRange == "index out of range"

\* *new(TSource) for ints.
Zero == 0

\* The variadic predicate argument: omitted, nil, or a function (the set of
\* the values it holds for).
NoPredicate == [kind |-> "none", holds |-> {}]
NilPredicate == [kind |-> "nil", holds |-> {}]
FuncPredicate(P) == [kind |-> "func", holds |-> P]

\* len(predicate) > 0 && predicate[0] != nil
HasPredicate(t) == t.pred.kind = "func"

Terminal(op, pred, fallback, ys, cmp, self) ==
    [phase |-> "loop", op |-> op, pred |-> pred, ys |-> ys, cmp |-> cmp, result |-> Zero,
     fallback |-> fallback, self |-> self, any |-> FALSE, found |-> FALSE, item1 |-> Zero,
     returned |-> FALSE, rv |-> Zero, err |-> ErrNil, index |-> 0, param |-> 0,
     min |-> Zero, max |-> Zero, sum |-> Zero, count |-> 0]

\* The terminal operation with its further argument a (an index, a seed
\* with its functions, a three-way comparer).
WithParam(t, a) == [t EXCEPT !.param = a]

TStep(t, go) == [t |-> t, go |-> go, next |-> FALSE]

\* The body goes on with a call of next() of an iter.Pull.
TNext(t) == [t |-> t, go |-> FALSE, next |-> TRUE]

\* return v, e
Return(t, v, e) == [t EXCEPT !.returned = TRUE, !.rv = v, !.err = e]

\* First that forgets its any flag: no match is reported the same for an
\* empty source.
FirstAnyLost(t, ev) ==
    IF HasPredicate(t)
    THEN CASE ev.kind = "item" ->
                IF ev.val \in t.pred.holds
                THEN TStep(Return(t, ev.val, ErrNil), FALSE)
                ELSE TStep(t, TRUE)
           [] ev.kind = "done" ->
                TStep(Return(t, Zero, ErrNoElementSatisfiesTheConditionInPredicate), FALSE)
    ELSE CASE ev.kind = "item" -> TStep(Return(t, ev.val, ErrNil), FALSE)
           [] ev.kind = "done" -> TStep(Return(t, Zero, ErrSourceContainsNoElements), FALSE)

First(t, ev) ==
    IF HasPredicate(t)
    THEN CASE ev.kind = "item" ->
                IF ev.val \in t.pred.holds
                THEN TStep(Return([t EXCEPT !.any = TRUE], ev.val, ErrNil), FALSE)
                ELSE TStep([t EXCEPT !.any = TRUE], TRUE)
           [] ev.kind = "done" ->
                IF ~t.any
                THEN TStep(Return(t, Zero, ErrSourceContainsNoElements), FALSE)
                ELSE TStep(Return(t, Zero, ErrNoElementSatisfiesTheConditionInPredicate), FALSE)
    ELSE CASE ev.kind = "item" -> TStep(Return(t, ev.val, ErrNil), FALSE)
           [] ev.kind = "done" -> TStep(Return(t, Zero, ErrSourceContainsNoElements), FALSE)

FirstOrDefault(t, ev) ==
    IF HasPredicate(t)
    THEN CASE ev.kind = "item" ->
                IF ev.val \in t.pred.holds
                THEN TStep(Return(t, ev.val, ErrNil), FALSE)
                ELSE TStep(t, TRUE)
           [] ev.kind = "done" -> TStep(Return(t, Zero, ErrNil), FALSE)
    ELSE CASE ev.kind = "item" -> TStep(Return(t, ev.val, ErrNil), FALSE)
           [] ev.kind = "done" -> TStep(Return(t, Zero, ErrNil), FALSE)

FirstOrFallback(t, ev) ==
    IF HasPredicate(t)
    THEN CASE ev.kind = "item" ->
                IF ev.val \in t.pred.holds
                THEN TStep(Return(t, ev.val, ErrNil), FALSE)
                ELSE TStep(t, TRUE)
           [] ev.kind = "done" -> TStep(Return(t, t.fallback, ErrNil), FALSE)
    ELSE CASE ev.kind = "item" -> TStep(Return(t, ev.val, ErrNil), FALSE)
           [] ev.kind = "done" -> TStep(Return(t, t.fallback, ErrNil), FALSE)

Last(t, ev) ==
    IF HasPredicate(t)
    THEN CASE ev.kind = "item" ->
                IF ev.val \in t.pred.holds
                THEN TStep([t EXCEPT !.any = TRUE, !.found = TRUE, !.result = ev.val], TRUE)
                ELSE TStep([t EXCEPT !.any = TRUE], TRUE)
           [] ev.kind = "done" ->
                IF t.found THEN TStep(Return(t, t.result, ErrNil), FALSE)
                ELSE IF ~t.any
                THEN TStep(Return(t, Zero, ErrSourceContainsNoElements), FALSE)
                ELSE TStep(Return(t, Zero, ErrNoElementSatisfiesTheConditionInPredicate), FALSE)
    ELSE CASE ev.kind = "item" -> TStep([t EXCEPT !.found = TRUE, !.result = ev.val], TRUE)
           [] ev.kind = "done" ->
                IF t.found
                THEN TStep(Return(t, t.result, ErrNil), FALSE)
                ELSE TStep(Return(t, Zero, ErrSourceContainsNoElements), FALSE)

LastOrDefault(t, ev) ==
    IF HasPredicate(t)
    THEN CASE ev.kind = "item" ->
                IF ev.val \in t.pred.holds
                THEN TStep([t EXCEPT !.found = TRUE, !.result = ev.val], TRUE)
                ELSE TStep(t, TRUE)
           [] ev.kind = "done" ->
                IF t.found
                THEN TStep(Return(t, t.result, ErrNil), FALSE)
                ELSE TStep(Return(t, Zero, ErrNil), FALSE)
    ELSE CASE ev.kind = "item" -> TStep([t EXCEPT !.found = TRUE, !.result = ev.val], TRUE)
           [] ev.kind = "done" ->
                IF t.found
                THEN TStep(Return(t, t.result, ErrNil), FALSE)
                ELSE TStep(Return(t, Zero, ErrNil), FALSE)

LastOrFallback(t, ev) ==
    IF HasPredicate(t)
    THEN CASE ev.kind = "item" ->
                IF ev.val \in t.pred.holds
                THEN TStep([t EXCEPT !.found = TRUE, !.result = ev.val], TRUE)
                ELSE TStep(t, TRUE)
           [] ev.kind = "done" ->
                IF t.found
                THEN TStep(Return(t, t.result, ErrNil), FALSE)
                ELSE TStep(Return(t, t.fallback, ErrNil), FALSE)
    ELSE CASE ev.kind = "item" -> TStep([t EXCEPT !.found = TRUE, !.result = ev.val], TRUE)
           [] ev.kind = "done" ->
                IF t.found
                THEN TStep(Return(t, t.result, ErrNil), FALSE)
                ELSE TStep(Return(t, t.fallback, ErrNil), FALSE)

\* Single without its tests of found inside the loops: a later element
\* replaces the earlier one, as in Last.
SingleKeepsLast(t, ev) == Last(t, ev)

Single(t, ev) ==
    IF HasPredicate(t)
    THEN CASE ev.kind = "item" ->
                IF ev.val \in t.pred.holds
                THEN IF t.found
                     THEN TStep(Return([t EXCEPT !.any = TRUE], Zero,
                                       ErrMoreThanOneElementSatisfiesTheConditionInPredicate), FALSE)
                     ELSE TStep([t EXCEPT !.any = TRUE, !.result = ev.val, !.found = TRUE], TRUE)
                ELSE TStep([t EXCEPT !.any = TRUE], TRUE)
           [] ev.kind = "done" ->
                IF t.found THEN TStep(Return(t, t.result, ErrNil), FALSE)
                ELSE IF ~t.any
                THEN TStep(Return(t, Zero, ErrSourceContainsNoElements), FALSE)
                ELSE TStep(Return(t, Zero, ErrNoElementSatisfiesTheConditionInPredicate), FALSE)
    ELSE CASE ev.kind = "item" ->
                IF t.found
                THEN TStep(Return(t, Zero, ErrSourceHasMoreThanOneElement), FALSE)
                ELSE TStep([t EXCEPT !.result = ev.val, !.found = TRUE], TRUE)
           [] ev.kind = "done" ->
                IF ~t.found
                THEN TStep(Return(t, Zero, ErrSourceContainsNoElements), FALSE)
                ELSE TStep(Return(t, t.result, ErrNil), FALSE)

\* SingleOrDefault without its tests of found inside the loops.
SingleOrDefaultKeepsLast(t, ev) == LastOrDefault(t, ev)

SingleOrDefault(t, ev) ==
    IF HasPredicate(t)
    THEN CASE ev.kind = "item" ->
                IF ev.val \in t.pred.holds
                THEN IF t.found
                     THEN TStep(Return(t, Zero, ErrNil), FALSE)
                     ELSE TStep([t EXCEPT !.result = ev.val, !.found = TRUE], TRUE)
                ELSE TStep(t, TRUE)
           [] ev.kind = "done" -> TStep(Return(t, t.result, ErrNil), FALSE)
    ELSE CASE ev.kind = "item" ->
                IF t.found
                THEN TStep(Return(t, Zero, ErrNil), FALSE)
                ELSE TStep([t EXCEPT !.result = ev.val, !.found = TRUE], TRUE)
           [] ev.kind = "done" -> TStep(Return(t, t.result, ErrNil), FALSE)

SingleOrFallback(t, ev) ==
    IF HasPredicate(t)
    THEN CASE ev.kind = "item" ->
                IF ev.val \in t.pred.holds
                THEN IF t.found
                     THEN TStep(Return(t, t.fallback, ErrNil), FALSE)
                     ELSE TStep([t EXCEPT !.result = ev.val, !.found = TRUE], TRUE)
                ELSE TStep(t, TRUE)
           [] ev.kind = "done" ->
                IF t.found
                THEN TStep(Return(t, t.result, ErrNil), FALSE)
                ELSE TStep(Return(t, t.fallback, ErrNil), FALSE)
    ELSE CASE ev.kind = "item" ->
                IF t.found
                THEN TStep(Return(t, t.fallback, ErrNil), FALSE)
                ELSE TStep([t EXCEPT !.result = ev.val, !.found = TRUE], TRUE)
           [] ev.kind = "done" ->
                IF t.found
                THEN TStep(Return(t, t.result, ErrNil), FALSE)
                ELSE TStep(Return(t, t.fallback, ErrNil), FALSE)

\* SequenceEqual's loop body calls next() of the iter.Pull it made of
\* sequence: its "item" and "done" cases end in that call (TNext), and
\* the "next" case is what follows the call, ev.ok and ev.val being what
\* next() returned.  t.phase is "loop" inside the loop over source and
\* "final" at the last next() after it.  Without a non-nil comparer the
\* default equality decides (Equal).
SequenceEqualSameLength(t, ev) ==
    CASE ev.kind = "item" -> TNext([t EXCEPT !.item1 = ev.val])
      [] ev.kind = "next" /\ t.phase = "loop" ->
            IF ~ev.ok
            THEN TStep(Return(t, FALSE, ErrNil), FALSE)
            ELSE TStep(t, TRUE)
      [] ev.kind = "done" -> TNext([t EXCEPT !.phase = "final"])
      [] ev.kind = "next" /\ t.phase = "final" -> TStep(Return(t, ~ev.ok, ErrNil), FALSE)

SequenceEqual(t, ev) ==
    CASE ev.kind = "item" -> TNext([t EXCEPT !.item1 = ev.val])
      [] ev.kind = "next" /\ t.phase = "loop" ->
            IF ~ev.ok \/ ~Equal(t.cmp, t.item1, ev.val)
            THEN TStep(Return(t, FALSE, ErrNil), FALSE)
            ELSE TStep(t, TRUE)
      [] ev.kind = "done" -> TNext([t EXCEPT !.phase = "final"])
      [] ev.kind = "next" /\ t.phase = "final" -> TStep(Return(t, ~ev.ok, ErrNil), FALSE)

\* ElementAt and its variants: the "call" case is what runs before the loop
\* (index is the parameter, which the loop decrements).
ElementAtFromOne(t, ev) ==
    CASE ev.kind = "call" ->
            IF t.param < 0
            THEN TStep(Return(t, Zero, ErrIndexOutOfRange), FALSE)
            ELSE TStep([t EXCEPT !.index = t.param], TRUE)
      [] ev.kind = "item" ->
            IF t.index = 1
            THEN TStep(Return(t, ev.val, ErrNil), FALSE)
            ELSE TStep([t EXCEPT !.index = t.index - 1], TRUE)
      [] ev.kind = "done" -> TStep(Return(t, Zero, ErrIndexOutOfRange), FALSE)

ElementAt(t, ev) ==
    CASE ev.kind = "call" ->
            IF t.param < 0
            THEN TStep(Return(t, Zero, ErrIndexOutOfRange), FALSE)
            ELSE TStep([t EXCEPT !.index = t.param], TRUE)
      [] ev.kind = "item" ->
            IF t.index = 0
            THEN TStep(Return(t, ev.val, ErrNil), FALSE)
            ELSE TStep([t EXCEPT !.index = t.index - 1], TRUE)
      [] ev.kind = "done" -> TStep(Return(t, Zero, ErrIndexOutOfRange), FALSE)

ElementAtOrDefault(t, ev) ==
    CASE ev.kind = "call" ->
            IF t.param < 0
            THEN TStep(Return(t, Zero, ErrNil), FALSE)
            ELSE TStep([t EXCEPT !.index = t.param], TRUE)
      [] ev.kind = "item" ->
            IF t.index = 0
            THEN TStep(Return(t, ev.val, ErrNil), FALSE)
            ELSE TStep([t EXCEPT !.index = t.index - 1], TRUE)
      [] ev.kind = "done" -> TStep(Return(t, Zero, ErrNil), FALSE)

ElementAtOrFallback(t, ev) ==
    CASE ev.kind = "call" ->
            IF t.param < 0
            THEN TStep(Return(t, t.fallback, ErrNil), FALSE)
            ELSE TStep([t EXCEPT !.index = t.param], TRUE)
      [] ev.kind = "item" ->
            IF t.index = 0
            THEN TStep(Return(t, ev.val, ErrNil), FALSE)
            ELSE TStep([t EXCEPT !.index = t.index - 1], TRUE)
      [] ev.kind = "done" -> TStep(Return(t, t.fallback, ErrNil), FALSE)

\* The accumulator and result selector functions Aggregate is called with:
\* the addition of the repository's test, an accumulator for which the
\* order of the elements matters, and the halving selector of the test.
Accumulate(f, acc, object) ==
    CASE f = "add" -> acc + object
      [] f = "double and add" -> 2 * acc + object
Select1(g, acc) ==
    CASE g = "halve" -> acc \div 2
      [] g = "successor" -> acc + 1

\* Aggregate calling accumulator(item, result): the arguments exchanged.
AggregateExchanged(t, ev) ==
    CASE ev.kind = "call" -> TStep([t EXCEPT !.result = t.param.seed], TRUE)
      [] ev.kind = "item" ->
            TStep([t EXCEPT !.result = Accumulate(t.param.accumulator, ev.val, t.result)], TRUE)
      [] ev.kind = "done" ->
            IF t.param.selector # "none"
            THEN TStep(Return(t, Select1(t.param.selector, t.result), ErrNil), FALSE)
            ELSE TStep(Return(t, t.result, ErrNil), FALSE)

\* t.param.selector is "none" when len(resultSelector) = 0.
Aggregate(t, ev) ==
    CASE ev.kind = "call" -> TStep([t EXCEPT !.result = t.param.seed], TRUE)
      [] ev.kind = "item" ->
            TStep([t EXCEPT !.result = Accumulate(t.param.accumulator, t.result, ev.val)], TRUE)
      [] ev.kind = "done" ->
            IF t.param.selector # "none"
            THEN TStep(Return(t, Select1(t.param.selector, t.result), ErrNil), FALSE)
            ELSE TStep(Return(t, t.result, ErrNil), FALSE)

\* ------------------------------------------------ Min, Max, MinMax, Average
\* v.Compare(item) of an element type that is generic.IComparable.
CompareTo(v, item) == v - item

\* The loop body called a nil function.
TPanic(t) == [t |-> [t EXCEPT !.phase = "panic"], go |-> FALSE, next |-> FALSE]

\* The first element of the loops of Min, Max and MinMax.
Found(t, item) == [t EXCEPT !.min = item, !.max = item, !.found = TRUE]

\* if !found { return ..., ErrSourceContainsNoElements }; return ..., nil
AfterLoop(t, v, zero) ==
    IF ~t.found
    THEN TStep(Return(t, zero, ErrSourceContainsNoElements), FALSE)
    ELSE TStep(Return(t, v, ErrNil), FALSE)

minmax(t, ev) ==
    CASE ev.kind = "item" ->
            IF ~t.found THEN TStep(Found(t, ev.val), TRUE)
            ELSE IF ev.val < t.min THEN TStep([t EXCEPT !.min = ev.val], TRUE)
            ELSE IF ev.val > t.max THEN TStep([t EXCEPT !.max = ev.val], TRUE)
            ELSE TStep(t, TRUE)
      [] ev.kind = "done" -> AfterLoop(t, <<t.min, t.max>>, <<Zero, Zero>>)

\* min, _, err = minmax(source) and _, max, err = minmax(source)
Component(r, i) == IF r.t.returned THEN TStep(Return(r.t, r.t.rv[i], r.t.err), FALSE) ELSE r

\* t.param.compare is the comparer; t.param.comparable tells that the
\* element type has a Compare method, whose receiver v is the zero value
\* that max held before the loop.
Max(t, ev) ==
    IF t.param.compare.kind # "none"
    THEN CASE ev.kind = "item" ->
                IF ~t.found THEN TStep([t EXCEPT !.max = ev.val, !.found = TRUE], TRUE)
                ELSE IF t.param.compare.kind = "nil" THEN TPanic(t)
                ELSE IF Compare(t.param.compare, t.max, ev.val) > 0
                     THEN TStep([t EXCEPT !.max = ev.val], TRUE)
                     ELSE TStep(t, TRUE)
           [] ev.kind = "done" -> AfterLoop(t, t.max, t.max)
    ELSE IF t.param.comparable
    THEN CASE ev.kind = "item" ->
                IF ~t.found THEN TStep([t EXCEPT !.max = ev.val, !.found = TRUE], TRUE)
                ELSE IF CompareTo(Zero, ev.val) > 0
                     THEN TStep([t EXCEPT !.max = ev.val], TRUE)
                     ELSE TStep(t, TRUE)
           [] ev.kind = "done" -> AfterLoop(t, t.max, t.max)
    ELSE Component(minmax(t, ev), 2)

Min(t, ev) ==
    IF t.param.compare.kind # "none"
    THEN CASE ev.kind = "item" ->
                IF ~t.found THEN TStep([t EXCEPT !.min = ev.val, !.found = TRUE], TRUE)
                ELSE IF t.param.compare.kind = "nil" THEN TPanic(t)
                ELSE IF Compare(t.param.compare, t.min, ev.val) < 0
                     THEN TStep([t EXCEPT !.min = ev.val], TRUE)
                     ELSE TStep(t, TRUE)
           [] ev.kind = "done" -> AfterLoop(t, t.min, t.min)
    ELSE IF t.param.comparable
    THEN CASE ev.kind = "item" ->
                IF ~t.found THEN TStep([t EXCEPT !.min = ev.val, !.found = TRUE], TRUE)
                ELSE IF CompareTo(Zero, ev.val) < 0
                     THEN TStep([t EXCEPT !.min = ev.val], TRUE)
                     ELSE TStep(t, TRUE)
           [] ev.kind = "done" -> AfterLoop(t, t.min, t.min)
    ELSE Component(minmax(t, ev), 1)

MinMax(t, ev) ==
    IF t.param.compare.kind # "none"
    THEN CASE ev.kind = "item" ->
                IF ~t.found THEN TStep(Found(t, ev.val), TRUE)
                ELSE IF t.param.compare.kind = "nil" THEN TPanic(t)
                ELSE IF Compare(t.param.compare, t.min, ev.val) < 0
                     THEN TStep([t EXCEPT !.min = ev.val], TRUE)
                ELSE IF Compare(t.param.compare, t.max, ev.val) > 0
                     THEN TStep([t EXCEPT !.max = ev.val], TRUE)
                     ELSE TStep(t, TRUE)
           [] ev.kind = "done" -> AfterLoop(t, <<t.min, t.max>>, <<t.min, t.max>>)
    ELSE IF t.param.comparable
    THEN CASE ev.kind = "item" ->
                IF ~t.found THEN TStep(Found(t, ev.val), TRUE)
                ELSE LET t1 == IF CompareTo(Zero, ev.val) < 0 THEN [t EXCEPT !.min = ev.val] ELSE t
                     IN  IF CompareTo(Zero, ev.val) > 0
                         THEN TStep([t1 EXCEPT !.max = ev.val], TRUE)
                         ELSE TStep(t1, TRUE)
           [] ev.kind = "done" -> AfterLoop(t, <<t.min, t.max>>, <<t.min, t.max>>)
    ELSE minmax(t, ev)

\* The top-level Max, Min and MinMax of a generic.Comparable element type.
MaxFunc(t, ev) ==
    CASE ev.kind = "item" ->
            IF ~t.found THEN TStep([t EXCEPT !.max = ev.val, !.found = TRUE], TRUE)
            ELSE IF ev.val > t.max THEN TStep([t EXCEPT !.max = ev.val], TRUE)
            ELSE TStep(t, TRUE)
      [] ev.kind = "done" -> AfterLoop(t, t.max, t.max)

MinFunc(t, ev) ==
    CASE ev.kind = "item" ->
            IF ~t.found THEN TStep([t EXCEPT !.min = ev.val, !.found = TRUE], TRUE)
            ELSE IF ev.val < t.min THEN TStep([t EXCEPT !.min = ev.val], TRUE)
            ELSE TStep(t, TRUE)
      [] ev.kind = "done" -> AfterLoop(t, t.min, t.min)

MinMaxFunc(t, ev) ==
    CASE ev.kind = "item" ->
            IF ~t.found THEN TStep(Found(t, ev.val), TRUE)
            ELSE IF ev.val < t.min THEN TStep([t EXCEPT !.min = ev.val], TRUE)
            ELSE IF ev.val > t.max THEN TStep([t EXCEPT !.max = ev.val], TRUE)
            ELSE TStep(t, TRUE)
      [] ev.kind = "done" -> AfterLoop(t, <<t.min, t.max>>, <<t.min, t.max>>)

\* float64(sum) / float64(count), kept as the two numbers it divides.
Quotient(sum, count) == [sum |-> sum, count |-> count]

\* Average that never reports an empty source.
AverageOfNothing(t, ev) ==
    CASE ev.kind = "item" -> TStep([t EXCEPT !.sum = t.sum + ev.val, !.count = t.count + 1], TRUE)
      [] ev.kind = "done" -> TStep(Return(t, Quotient(t.sum, t.count), ErrNil), FALSE)

Average(t, ev) ==
    CASE ev.kind = "item" -> TStep([t EXCEPT !.sum = t.sum + ev.val, !.count = t.count + 1], TRUE)
      [] ev.kind = "done" ->
            IF t.count = 0
            THEN TStep(Return(t, Quotient(Zero, Zero), ErrSourceContainsNoElements), FALSE)
            ELSE TStep(Return(t, Quotient(t.sum, t.count), ErrNil), FALSE)

TerminalOperator(t, ev) ==
    CASE t.op = "First" -> First(t, ev)
      [] t.op = "FirstOrDefault" -> FirstOrDefault(t, ev)
      [] t.op = "FirstOrFallback" -> FirstOrFallback(t, ev)
      [] t.op = "Last" -> Last(t, ev)
      [] t.op = "LastOrDefault" -> LastOrDefault(t, ev)
      [] t.op = "LastOrFallback" -> LastOrFallback(t, ev)
      [] t.op = "Single" -> Single(t, ev)
      [] t.op = "SingleOrDefault" -> SingleOrDefault(t, ev)
      [] t.op = "SingleOrFallback" -> SingleOrFallback(t, ev)
      [] t.op = "SequenceEqual" -> SequenceEqual(t, ev)
      [] t.op = "ElementAt" -> ElementAt(t, ev)
      [] t.op = "ElementAtOrDefault" -> ElementAtOrDefault(t, ev)
      [] t.op = "ElementAtOrFallback" -> ElementAtOrFallback(t, ev)
      [] t.op = "Aggregate" -> Aggregate(t, ev)
      [] t.op = "Min" -> Min(t, ev)
      [] t.op = "Max" -> Max(t, ev)
      [] t.op = "MinMax" -> MinMax(t, ev)
      [] t.op = "MinFunc" -> MinFunc(t, ev)
      [] t.op = "MaxFunc" -> MaxFunc(t, ev)
      [] t.op = "MinMaxFunc" -> MinMaxFunc(t, ev)
      [] t.op = "Average" -> Average(t, ev)

\* The terminal operations with statements before their loop.
Prologued == {"ElementAt", "ElementAtOrDefault", "ElementAtOrFallback", "Aggregate"}

\* The terminal operation as it reaches its loop, or as it returned before it.
BeforeLoop(t) ==
    IF t.op \in Prologued THEN TerminalOperator(t, [kind |-> "call", val |-> 0]).t ELSE t

\* ---------------------------------------------------------------- state
VARIABLES
    xs,        \* the slice given to FromSlice
    gen,       \* what the closure of Range or Repeat captured, when that is the source
    stages,    \* the operators built over FromSlice(xs), innermost first
    locs,      \* the locals of the running invocation of each operator
    srcIdx,    \* the position of FromSlice's loop
    msg,       \* the token: [kind, to, val]
    budget,    \* the consumer returns false on its budget-th element (0: never, ToSlice)
    out,       \* the elements the consumer has received in this traversal
    yields,    \* the number of times the consumer's yield was invoked in this traversal
    stopped,   \* the consumer's yield has returned false in this traversal
    emitted,   \* the number of elements FromSlice(xs) has emitted in this traversal
    emitted2,  \* the number of elements pulled from operand sequences in this traversal
    runs,      \* the results of the finished traversals, oldest first
    started,   \* the number of traversals consumers have started
    term,      \* the running terminal operation (First, Single, SequenceEqual, ...) and its locals
    result,    \* what the terminal operation returned
    msg2,      \* the token of the traversal that iter.Pull runs for a terminal operation
    locs2,     \* the locals of each operator's invocation in the pulled traversal
    srcIdx2    \* the position of FromSlice's loop in the pulled traversal

tvars == <<term, result, msg2, locs2, srcIdx2>>
vars == <<xs, gen, stages, locs, srcIdx, msg, budget, out, yields, stopped, emitted, emitted2, runs, started,
          term, result, msg2, locs2, srcIdx2>>

Idle == [kind |-> "idle", val |-> 0, to |-> 0]
Token(kind, to, val) == [kind |-> kind, val |-> val, to |-> to]
K == Len(stages)

\* No terminal operation is running; none has returned.
NoTerminal == [op |-> "none", returned |-> FALSE]
NoResult == [value |-> Zero, returned |-> FALSE, err |-> ErrNil]

InitOver(S, G) ==
    /\ xs \in S
    /\ gen \in G
    /\ stages = <<>>
    /\ locs = <<>>
    /\ srcIdx = 0
    /\ msg = Idle
    /\ budget = 0
    /\ out = <<>>
    /\ yields = 0
    /\ stopped = FALSE
    /\ emitted = 0
    /\ emitted2 = 0
    /\ runs = <<>>
    /\ started = 0
    /\ term = NoTerminal
    /\ result = NoResult
    /\ msg2 = Idle
    /\ locs2 = <<>>
    /\ srcIdx2 = 0

\* The source is FromSlice(xs), xs drawn from S.
InitWith(S) == InitOver(S, {NoGenerator})

\* source.Op(args): the operator's function runs on the pipeline built so far
\* (the "new" step: what it does before it returns the new iterator).
Construct(menu) ==
    /\ msg.kind = "idle"
    /\ started = 0
    /\ K < MaxDepth
    /\ \E st \in menu :
          LET r == Operator(st, NewLocals, [kind |-> "new", val |-> 0])
          IN  /\ stages' = Append(stages, [st EXCEPT !.count = r.count])
              /\ locs' = Append(locs, r.l)
              /\ emitted2' = emitted2 + r.pulls
              /\ msg' = IF r.kind = "idle" THEN Idle ELSE Token(r.kind, K, r.val)
    /\ UNCHANGED <<xs, gen, srcIdx, budget, out, yields, stopped, emitted, runs, started>>
    /\ UNCHANGED tvars

\* A consumer starts ranging over the iterator value; the value is ranged
\* over at most maxRuns times.
Begin(budgets, maxRuns) ==
    /\ msg.kind = "idle"
    /\ started < maxRuns
    /\ started' = started + 1
    /\ budget' \in budgets
    /\ msg' = Token("call", K, 0)
    /\ out' = <<>>
    /\ yields' = 0
    /\ stopped' = FALSE
    /\ emitted' = 0
    /\ emitted2' = 0
    /\ UNCHANGED <<xs, gen, stages, locs, srcIdx, runs>>
    /\ UNCHANGED tvars

\* The traversals of a pipeline of at least one operator.
Start(budgets, maxRuns) == K >= 1 /\ Begin(budgets, maxRuns)

\* Range(start, count) or Repeat(element, count) runs up to its next yield
\* or to its return.
GeneratorStep ==
    /\ msg.kind \in {"call", "ret"}
    /\ msg.to = 0
    /\ LET r == IF gen.kind = "Range" THEN Range(gen, msg) ELSE Repeat(gen, msg)
       IN  /\ gen' = r.g
           /\ emitted' = emitted + r.emits
           /\ msg' = Token(r.kind, 1, r.val)
    /\ UNCHANGED <<xs, stages, locs, srcIdx, budget, out, yields, stopped, emitted2, runs, started>>
    /\ UNCHANGED tvars

\* FromSlice(xs) runs up to its next yield or to its return.
SourceStep ==
    /\ msg.kind \in {"call", "ret"}
    /\ msg.to = 0
    /\ LET r == FromSlice(xs, srcIdx, msg)
       IN  /\ srcIdx' = r.idx
           /\ emitted' = emitted + r.emits
           /\ msg' = Token(r.kind, 1, r.val)
    /\ UNCHANGED <<xs, gen, stages, locs, budget, out, yields, stopped, emitted2, runs, started>>
    /\ UNCHANGED tvars

\* The operator at level msg.to runs up to its next call of yield, its next
\* return to its source's loop, or its own return.
StageStep ==
    /\ msg.kind \in {"call", "item", "ret", "done"}
    /\ msg.to \in 1..K
    /\ \E pick \in Outcomes(stages[msg.to], locs[msg.to], msg) :
       LET k == msg.to
           r == Operator(stages[k], locs[k], Event(msg, pick))
       IN  /\ stages' = [stages EXCEPT ![k].count = r.count]
           /\ locs' = [locs EXCEPT ![k] = r.l]
           /\ emitted2' = emitted2 + r.pulls
           /\ msg' = CASE r.kind \in {"call", "ret"} -> Token(r.kind, k - 1, r.val)
                       [] r.kind \in {"item", "done"} -> Token(r.kind, k + 1, r.val)
                       [] r.kind = "panic" -> Token("panic", k, 0)
    /\ UNCHANGED <<xs, gen, srcIdx, budget, out, yields, stopped, emitted, runs, started>>
    /\ UNCHANGED tvars

\* The consumer's loop body receives an element.  Calling yield again after
\* it returned false is a runtime panic of the range-over-func loop.
ConsumerItem ==
    /\ msg.kind = "item"
    /\ msg.to = K + 1
    /\ term.op = "none"
    /\ yields' = yields + 1
    /\ IF stopped
       THEN /\ msg' = Token("panic", K + 1, 0)
            /\ UNCHANGED <<out, stopped>>
       ELSE /\ out' = Append(out, msg.val)
            /\ stopped' = (budget > 0 /\ Len(out) + 1 >= budget)
            /\ msg' = Token("ret", K, ~stopped')
    /\ UNCHANGED <<xs, gen, stages, locs, srcIdx, budget, emitted, emitted2, runs, started>>
    /\ UNCHANGED tvars

\* The iterator function returned to the consumer: the traversal is over.
ConsumerDone ==
    /\ msg.kind = "done"
    /\ msg.to = K + 1
    /\ term.op = "none"
    /\ runs' = Append(runs, out)
    /\ msg' = Idle
    /\ UNCHANGED <<xs, gen, stages, locs, srcIdx, budget, out, yields, stopped, emitted, emitted2, started>>
    /\ UNCHANGED tvars

\* --------------------------------------------- terminal operations: actions
\* The sequence a terminal operation pulls from (iter.Pull) is the pipeline
\* itself (t.self: source.Op(source)) or FromSlice(t.ys).  The pulled
\* traversal has its own token msg2, its own locals locs2 and its own
\* FromSlice position srcIdx2, and shares with the pushed traversal what the
\* operators' closures captured (stages).  msg2 is idle before the first
\* next(), "susp" while the pulled traversal waits inside its yield, "over"
\* once it has returned.  msg is "wait" while the terminal operation waits
\* inside next() or stop().
PullDepth == IF term.self THEN K ELSE 0
PullSlice == IF term.self THEN xs ELSE term.ys
Suspended == Token("susp", 0, 0)
Over == Token("over", 0, 0)
Waiting == Token("wait", K + 1, 0)

\* next(): the pulled traversal starts, or its yield returns true.
Resume(m2) == IF m2.kind = "idle" THEN Token("call", PullDepth, 0) ELSE Token("ret", PullDepth, TRUE)

\* What next() returned to the terminal operation.
NextReturned(t, ok, val) == TerminalOperator(t, [kind |-> "next", ok |-> ok, val |-> val])

Published(t) == [value |-> t.rv, returned |-> TRUE, err |-> t.err]

\* source.Op(args) of a terminal operation: it starts ranging over the pipeline.
Call(menu) ==
    /\ msg.kind = "idle"
    /\ started = 0
    /\ term.op = "none"
    /\ \E t \in menu :
          LET t0 == BeforeLoop(t)
          IN  /\ term' = t0
              /\ IF t0.returned
                 THEN /\ msg' = Idle
                      /\ result' = [value |-> t0.rv, returned |-> TRUE, err |-> t0.err]
                 ELSE /\ msg' = Token("call", K, 0)
                      /\ UNCHANGED result
    /\ started' = 1
    /\ locs2' = [k \in 1..K |-> NewLocals]
    /\ UNCHANGED <<xs, gen, stages, locs, srcIdx, budget, out, yields, stopped, emitted, emitted2, runs>>
    /\ UNCHANGED <<msg2, srcIdx2>>

\* The terminal operation runs on: after TNext it calls next(), which
\* returns at once when the pulled traversal is over and else resumes it;
\* otherwise its loop body ends and yield returns go.  A loop body that called
\* a nil function panics.
RunOn(r) ==
    IF r.next
    THEN IF msg2.kind = "over"
         THEN LET r2 == NextReturned(r.t, FALSE, Zero)
              IN  /\ term' = r2.t
                  /\ msg' = Token("ret", K, r2.go)
                  /\ UNCHANGED msg2
         ELSE /\ term' = r.t
              /\ msg' = Waiting
              /\ msg2' = Resume(msg2)
    ELSE /\ term' = r.t
         /\ msg' = IF r.t.phase = "panic" THEN Token("panic", K + 1, 0) ELSE Token("ret", K, r.go)
         /\ UNCHANGED msg2

\* The terminal operation returns t.rv: the deferred stop() first makes the
\* yield a suspended pulled traversal waits in return false and waits for
\* that traversal to return.
ReturnFrom(t) ==
    IF msg2.kind = "susp"
    THEN /\ term' = [t EXCEPT !.phase = "stop"]
         /\ msg' = Waiting
         /\ msg2' = Token("ret", PullDepth, FALSE)
         /\ UNCHANGED result
    ELSE /\ term' = t
         /\ msg' = Idle
         /\ result' = Published(t)
         /\ UNCHANGED msg2

\* The loop body of the terminal operation receives an element.  A body that
\* has returned is not called again: that is a panic of the range loop.
TerminalItem ==
    /\ msg.kind = "item"
    /\ msg.to = K + 1
    /\ term.op # "none"
    /\ IF term.returned
       THEN /\ msg' = Token("panic", K + 1, 0)
            /\ UNCHANGED <<term, msg2>>
       ELSE RunOn(TerminalOperator(term, msg))
    /\ UNCHANGED <<xs, gen, stages, locs, srcIdx, budget, out, yields, stopped, emitted, emitted2, runs, started>>
    /\ UNCHANGED <<result, locs2, srcIdx2>>

\* The pipeline returned: the terminal operation returns what its loop body
\* returned, or runs the statements after its loop.
TerminalDone ==
    /\ msg.kind = "done"
    /\ msg.to = K + 1
    /\ term.op # "none"
    /\ IF term.returned
       THEN ReturnFrom(term)
       ELSE LET r == TerminalOperator(term, msg)
            IN  IF r.next
                THEN IF msg2.kind = "over"
                     THEN ReturnFrom(NextReturned(r.t, FALSE, Zero).t)
                     ELSE /\ term' = r.t
                          /\ msg' = Waiting
                          /\ msg2' = Resume(msg2)
                          /\ UNCHANGED result
                ELSE ReturnFrom(r.t)
    /\ UNCHANGED <<xs, gen, stages, locs, srcIdx, budget, out, yields, stopped, emitted, emitted2, runs, started>>
    /\ UNCHANGED <<locs2, srcIdx2>>

\* FromSlice of the pulled traversal runs up to its next yield or to its return.
PullSourceStep ==
    /\ msg2.kind \in {"call", "ret"}
    /\ msg2.to = 0
    /\ LET r == FromSlice(PullSlice, srcIdx2, msg2)
       IN  /\ srcIdx2' = r.idx
           /\ msg2' = Token(r.kind, 1, r.val)
    /\ UNCHANGED <<xs, gen, stages, locs, srcIdx, msg, budget, out, yields, stopped, emitted, emitted2, runs, started>>
    /\ UNCHANGED <<term, result, locs2>>

\* An operator of the pulled traversal runs one step: the same closure as in
\* the pushed traversal (stages), another invocation of it (locs2).
PullStageStep ==
    /\ msg2.kind \in {"call", "item", "ret", "done"}
    /\ msg2.to \in 1..PullDepth
    /\ \E pick \in Outcomes(stages[msg2.to], locs2[msg2.to], msg2) :
       LET k == msg2.to
           r == Operator(stages[k], locs2[k], Event(msg2, pick))
       IN  /\ stages' = [stages EXCEPT ![k].count = r.count]
           /\ locs2' = [locs2 EXCEPT ![k] = r.l]
           /\ msg2' = CASE r.kind \in {"call", "ret"} -> Token(r.kind, k - 1, r.val)
                        [] r.kind \in {"item", "done"} -> Token(r.kind, k + 1, r.val)
                        [] r.kind = "panic" -> Token("panic", k, 0)
    /\ UNCHANGED <<xs, gen, locs, srcIdx, msg, budget, out, yields, stopped, emitted, emitted2, runs, started>>
    /\ UNCHANGED <<term, result, srcIdx2>>

\* The pulled traversal yields an element or returns: next() returns to the
\* terminal operation, or, after stop(), the yield returns false again and
\* the return of the traversal ends stop().
PullReturn ==
    /\ msg2.kind \in {"item", "done"}
    /\ msg2.to = PullDepth + 1
    /\ msg.kind = "wait"
    /\ LET ok == msg2.kind = "item"
           parked == IF ok THEN Suspended ELSE Over
       IN  CASE term.phase = "loop" ->
                  LET r == NextReturned(term, ok, msg2.val)
                  IN  /\ term' = r.t
                      /\ msg' = Token("ret", K, r.go)
                      /\ msg2' = parked
                      /\ UNCHANGED result
             [] term.phase = "final" ->
                  LET t == NextReturned(term, ok, msg2.val).t
                  IN  IF ok
                      THEN /\ term' = [t EXCEPT !.phase = "stop"]
                           /\ msg2' = Token("ret", PullDepth, FALSE)
                           /\ UNCHANGED <<msg, result>>
                      ELSE /\ term' = t
                           /\ msg' = Idle
                           /\ msg2' = Over
                           /\ result' = Published(t)
             [] term.phase = "stop" ->
                  IF ok
                  THEN /\ msg2' = Token("ret", PullDepth, FALSE)
                       /\ UNCHANGED <<term, msg, result>>
                  ELSE /\ msg' = Idle
                       /\ msg2' = Over
                       /\ result' = Published(term)
                       /\ UNCHANGED term
    /\ UNCHANGED <<xs, gen, stages, locs, srcIdx, budget, out, yields, stopped, emitted, emitted2, runs, started>>
    /\ UNCHANGED <<locs2, srcIdx2>>

\* ----------------------------------------------------------- the menus
NoArgs(op) == Stage(op, 0, {}, <<>>, NoComparer, NoSel)
WithCount(op) == {Stage(op, n, {}, <<>>, NoComparer, NoSel) : n \in Counts}
WithPredicate(op) == {Stage(op, 0, p, <<>>, NoComparer, NoSel) : p \in Predicates}
WithSlice(op) == {Stage(op, 0, {}, ys, NoComparer, NoSel) : ys \in ArgSlices}
Comparers == {NoComparer, NilComparer} \cup {FuncComparer(R) : R \in Equivalences}
WithComparer(op) == {Stage(op, 0, {}, <<>>, c, NoSel) : c \in Comparers}
WithSliceComparer(op) == {Stage(op, 0, {}, ys, c, NoSel) : ys \in ArgSlices, c \in Comparers}

\* Skip, Take, SkipLast and TakeLast over FromSlice(xs), consumed by ToSlice.
WindowStages ==
    WithCount("Skip") \cup WithCount("Take") \cup WithCount("SkipLast") \cup WithCount("TakeLast")
WindowMenu == IF K = 0 THEN WindowStages ELSE {}

InitWindow == InitWith(Slices)
NextWindow ==
    \/ Construct(WindowMenu)
    \/ Start({0}, MaxRuns)
    \/ SourceStep
    \/ StageStep
    \/ ConsumerItem
    \/ ConsumerDone
SpecWindow == InitWindow /\ [][NextWindow]_vars

\* Where, TakeWhile and SkipWhile over FromSlice(xs), with every predicate.
ElementStages ==
    WithPredicate("Where") \cup WithPredicate("TakeWhile") \cup WithPredicate("SkipWhile")
ElementMenu == IF K = 0 THEN ElementStages ELSE {}

InitElement == InitWith(Slices)
NextElement ==
    \/ Construct(ElementMenu)
    \/ Start({0}, 1)
    \/ SourceStep
    \/ StageStep
    \/ ConsumerItem
    \/ ConsumerDone
SpecElement == InitElement /\ [][NextElement]_vars

\* Distinct and Distinct().Distinct() over FromSlice(xs), with every comparer.
SetStages == WithComparer("Distinct")
SetMenu ==
    IF K = 0
    THEN SetStages
    ELSE IF stages[K].op = "Distinct"
         THEN {Stage("Distinct", 0, {}, <<>>, stages[K].cmp, NoSel)}
         ELSE {}

InitSet == InitWith(Slices)
NextSet ==
    \/ Construct(SetMenu)
    \/ Start({0}, 1)
    \/ SourceStep
    \/ StageStep
    \/ ConsumerItem
    \/ ConsumerDone
SpecSet == InitSet /\ [][NextSet]_vars

\* Except over FromSlice(xs), with an omitted, a nil or a given comparer.
Parity == FuncComparer({pr \in Values \X Values : pr[1] % 2 = pr[2] % 2})
SomeComparers == {NoComparer, NilComparer, Parity, FuncComparer(Values \X Values)}
ExceptStages == {Stage("Except", 0, {}, ys, c, NoSel) : ys \in ArgSlices, c \in SomeComparers}
ExceptMenu == IF K = 0 THEN ExceptStages ELSE {}

InitExcept == InitWith(Slices)
NextExcept ==
    \/ Construct(ExceptMenu)
    \/ Start({0}, 1)
    \/ SourceStep
    \/ StageStep
    \/ ConsumerItem
    \/ ConsumerDone
SpecExcept == InitExcept /\ [][NextExcept]_vars

\* Pipelines of the operators whose consumer may stop early.
Odd == {v \in Values : v % 2 = 1}
AllEqual == FuncComparer(Values \X Values)
Pattern(d) == [i \in 1..MaxLen |-> (((i - 1) \div d) % MaxVal) + 1]
StopSlices == {SubSeq(Pattern(d), 1, n) : d \in {1, 2}, n \in 0..MaxLen}
StopArg == <<1, 1>>

StopMenu ==
    { Stage("Where", 0, Odd, <<>>, NoComparer, NoSel),
      Stage("Select", 0, {}, <<>>, NoComparer, [v \in Values |-> (v % MaxVal) + 1]),
      Stage("Skip", 1, {}, <<>>, NoComparer, NoSel),
      Stage("Take", MaxLen - 1, {}, <<>>, NoComparer, NoSel),
      Stage("Take", MaxLen + 1, {}, <<>>, NoComparer, NoSel),
      Stage("TakeWhile", 0, {MaxVal}, <<>>, NoComparer, NoSel),
      Stage("SkipWhile", 0, Values \ {1}, <<>>, NoComparer, NoSel),
      Stage("Concat", 0, {}, StopArg, NoComparer, NoSel),
      Stage("Append", 0, {}, StopArg, NoComparer, NoSel),
      Stage("Prepend", 0, {}, StopArg, NoComparer, NoSel),
      Stage("Distinct", 0, {}, <<>>, NoComparer, NoSel),
      Stage("Union", 0, {}, <<MaxVal, 1>>, NoComparer, NoSel),
      Stage("Union", 0, {}, StopArg, AllEqual, NoSel) }

DeepMenu ==
    { Stage("Take", MaxLen - 1, {}, <<>>, NoComparer, NoSel),
      Stage("Concat", 0, {}, StopArg, NoComparer, NoSel) }

StopMenuAt == IF K < 2 THEN StopMenu ELSE DeepMenu

InitStop == InitWith(StopSlices)
NextStop ==
    \/ Construct(StopMenuAt)
    \/ Start(1..(MaxLen + 1), 1)
    \/ SourceStep
    \/ StageStep
    \/ ConsumerItem
    \/ ConsumerDone
SpecStop == InitStop /\ [][NextStop]_vars

\* Pipelines of every operator, built and then consumed by ToSlice.
LazyCore ==
    { Stage("Where", 0, Odd, <<>>, NoComparer, NoSel),
      Stage("Select", 0, {}, <<>>, NoComparer, [v \in Values |-> (v % MaxVal) + 1]),
      Stage("Skip", 1, {}, <<>>, NoComparer, NoSel),
      Stage("Take", 1, {}, <<>>, NoComparer, NoSel),
      Stage("SkipLast", 1, {}, <<>>, NoComparer, NoSel),
      Stage("TakeLast", 1, {}, <<>>, NoComparer, NoSel),
      Stage("Zip", 0, {}, StopArg, NoComparer, NoSel),
      NoArgs("Distinct"), NoArgs("Reverse"), NoArgs("Order"),
      Stage("Distinct", 0, {}, <<>>, AllEqual, NoSel),
      Stage("Union", 0, {}, StopArg, NoComparer, NoSel),
      Stage("Except", 0, {}, StopArg, NoComparer, NoSel),
      Stage("Intersect", 0, {}, StopArg, NoComparer, NoSel) }

\* Zip's elements are pairs: over it, only operators that do not look at them.
OverPairs ==
    { Stage("Skip", 1, {}, <<>>, NoComparer, NoSel),
      Stage("Take", 1, {}, <<>>, NoComparer, NoSel),
      Stage("SkipLast", 1, {}, <<>>, NoComparer, NoSel),
      Stage("TakeLast", 1, {}, <<>>, NoComparer, NoSel),
      NoArgs("Reverse") }

LazyTop == {Stage("Take", 1, {}, <<>>, NoComparer, NoSel)}
LazyMenu ==
    IF K = 0 THEN LazyCore
    ELSE IF K >= 2 THEN LazyTop
    ELSE IF stages[K].op = "Zip" THEN OverPairs
    ELSE LazyCore

InitLazy == InitWith(StopSlices)
NextLazy ==
    \/ Construct(LazyMenu)
    \/ Start({0}, 1)
    \/ SourceStep
    \/ StageStep
    \/ ConsumerItem
    \/ ConsumerDone
SpecLazy == InitLazy /\ [][NextLazy]_vars

\* ------------------------------------------------------------ the claims
Max0(n) == IF n > 0 THEN n ELSE 0
Min2(a, b) == IF a < b THEN a ELSE b
DropFirst(s, k) == SubSeq(s, k + 1, Len(s))
TakeFirst(s, k) == SubSeq(s, 1, Min2(k, Len(s)))
DropLast(s, k) == SubSeq(s, 1, Len(s) - k)
KeepLast(s, k) == SubSeq(s, Len(s) - Min2(k, Len(s)) + 1, Len(s))

\* One operator op over FromSlice(xs).
Alone(op) == K = 1 /\ stages[1].op = op
Panicked == msg.kind = "panic"

\* C2: the iterator value returned by Skip(n), Take(n), SkipLast(n) or
\* TakeLast(n) over FromSlice(xs) yields the same elements on every traversal
\* that runs to completion: a second ToSlice equals the first.
C2_SameOnEveryTraversal ==
    (K = 1 /\ stages[1].op \in {"Skip", "Take", "SkipLast", "TakeLast"})
        => \A a, b \in 1..Len(runs) : runs[a] = runs[b]

\* C5: on the first traversal, Skip(n).ToSlice() is xs without its first
\* max(n,0) elements and Take(n).ToSlice() is the first min(max(n,0), len(xs))
\* elements of xs, and neither panics.
C5_SkipTakeFirstTraversal ==
    /\ Alone("Skip") =>
          /\ ~Panicked
          /\ Len(runs) >= 1 => runs[1] = DropFirst(xs, Max0(stages[1].arg))
    /\ Alone("Take") =>
          /\ ~Panicked
          /\ Len(runs) >= 1 => runs[1] = TakeFirst(xs, Max0(stages[1].arg))

C5_Witness ==
    /\ Alone("Skip")
    /\ stages[1].arg >= 1
    /\ stages[1].arg < Len(xs)
    /\ Len(runs) >= 1
    /\ runs[1] # <<>>

\* C6: on the first traversal, SkipLast(n).ToSlice() is xs without its last
\* max(n,0) elements and TakeLast(n).ToSlice() is the last min(max(n,0),
\* len(xs)) elements of xs, in the order of xs.
C6_SkipLastTakeLastFirstTraversal ==
    /\ (Alone("SkipLast") /\ Len(runs) >= 1) => runs[1] = DropLast(xs, Max0(stages[1].arg))
    /\ (Alone("TakeLast") /\ Len(runs) >= 1) => runs[1] = KeepLast(xs, Max0(stages[1].arg))

C6_Witness ==
    /\ Alone("TakeLast")
    /\ stages[1].arg >= 1
    /\ stages[1].arg < Len(xs)
    /\ Len(runs) >= 1
    /\ runs[1] # <<>>

\* C1: once the consumer's yield has returned false in a traversal of a
\* pipeline of Where, Select, Skip, Take, TakeWhile, SkipWhile, Concat,
\* Append, Prepend, Distinct and Union over FromSlice, yield is not invoked
\* again in that traversal and no FromSlice (the source, or the sequence
\* given to Concat or Union) emits another element.
C1_StopPropagates ==
    [][(stopped /\ stopped') =>
          (yields' = yields /\ emitted' = emitted /\ emitted2' = emitted2 /\ ~Panicked')]_vars

C1_Witness ==
    /\ K = 2
    /\ stopped
    /\ msg.kind = "idle"
    /\ Len(runs) = 1
    /\ emitted < Len(xs)

\* C3: building a pipeline pulls no element: before a consumer has started
\* a traversal, no FromSlice has emitted anything and nothing is running.
C3_NothingPulledBeforeTraversal ==
    started = 0 => (emitted = 0 /\ emitted2 = 0 /\ srcIdx = 0 /\ msg.kind = "idle")

C3_Witness ==
    /\ K = 2
    /\ started = 0
    /\ stages[1].op = "Distinct"
    /\ stages[2].op = "Order"
    /\ Len(xs) = MaxLen

Filter(s, P) == SelectSeq(s, LAMBDA v : v \in P)

\* C4: FromSlice(xs).Where(p).ToSlice() is the subsequence of xs of the
\* elements that satisfy p, in the order of xs.
C4_WhereIsFilter ==
    (Alone("Where") /\ Len(runs) >= 1) => runs[1] = Filter(xs, stages[1].pred)

C4_Witness ==
    /\ Alone("Where")
    /\ Len(runs) >= 1
    /\ runs[1] # <<>>
    /\ Len(runs[1]) < Len(xs)

\* The position of the first element of s that satisfies P; Len(s) + 1 if none does.
FirstIn(s, P) ==
    IF \E i \in 1..Len(s) : s[i] \in P
    THEN CHOOSE i \in 1..Len(s) : s[i] \in P /\ \A j \in 1..(i - 1) : s[j] \notin P
    ELSE Len(s) + 1

C8_SkipWhileOmitsMatchingPrefix ==
    (Alone("SkipWhile") /\ Len(runs) >= 1)
        => runs[1] = SubSeq(xs, FirstIn(xs, Values \ stages[1].pred), Len(xs))

\* The equality a comparer argument stands for: the comparer, or identity.
Same(cmp, a, b) == IF cmp.kind = "func" THEN <<a, b>> \in cmp.rel ELSE a = b

\* The elements of s that equal no earlier element of s, in the order of s.
FirstOccurrences(s, cmp) ==
    LET keep == {i \in 1..Len(s) : \A j \in 1..(i - 1) : ~Same(cmp, s[j], s[i])}
        F[i \in 0..Len(s)] ==
            IF i = 0 THEN <<>>
            ELSE IF i \in keep THEN Append(F[i - 1], s[i]) ELSE F[i - 1]
    IN  F[Len(s)]

IsDistinctOf(r, s, cmp) ==
    /\ \A i, j \in 1..Len(r) : i # j => ~Same(cmp, r[i], r[j])
    /\ \A i \in 1..Len(s) : \E j \in 1..Len(r) : Same(cmp, r[j], s[i])
    /\ r = FirstOccurrences(s, cmp)

C10_ExceptIsDifference ==
    (Alone("Except") /\ stages[1].cmp.kind # "nil" /\ Len(runs) >= 1)
        => runs[1] = SelectSeq(FirstOccurrences(xs, stages[1].cmp),
                               LAMBDA v : \A k \in 1..Len(stages[1].ys) :
                                             ~Same(stages[1].cmp, v, stages[1].ys[k]))

\* ------------------------------------------- two sequences: the set operators
\* Both operands of a two-sequence operator, over the values 1..MaxPairVal.
PairValues == 1..MaxPairVal
PairSlices == SeqsUpTo(PairValues, MaxLen)
PairArgs == SeqsUpTo(PairValues, MaxArg)
Identity == FuncComparer({pr \in Values \X Values : pr[1] = pr[2]})
GivenComparers == {NoComparer, Identity, AllEqual}

\* Intersect over FromSlice(xs), with an omitted or a given comparer.
IntersectStages == {Stage("Intersect", 0, {}, ys, c, NoSel) : ys \in PairArgs, c \in GivenComparers}
IntersectMenu == IF K = 0 THEN IntersectStages ELSE {}

InitIntersect == InitWith(PairSlices)
NextIntersect ==
    \/ Construct(IntersectMenu)
    \/ Start({0}, 1)
    \/ SourceStep
    \/ StageStep
    \/ ConsumerItem
    \/ ConsumerDone
SpecIntersect == InitIntersect /\ [][NextIntersect]_vars

\* v equals some element of s.
Appears(cmp, v, s) == \E k \in 1..Len(s) : Same(cmp, v, s[k])

\* C11: source.Intersect(sequence).ToSlice() is the distinct elements of
\* source that also appear in sequence, each once, in the order of their
\* first occurrence in source.
C11_IntersectIsIntersection ==
    (Alone("Intersect") /\ Len(runs) >= 1)
        => runs[1] = SelectSeq(FirstOccurrences(xs, stages[1].cmp),
                               LAMBDA v : Appears(stages[1].cmp, v, stages[1].ys))

C11_Witness ==
    /\ Alone("Intersect")
    /\ xs = <<1, 2, 1>>
    /\ stages[1].ys = <<2, 1>>
    /\ stages[1].cmp.kind = "none"
    /\ Len(runs) >= 1
    /\ runs[1] = <<1, 2>>

\* Union over FromSlice(xs), with an omitted or a given comparer.
UnionStages == {Stage("Union", 0, {}, ys, c, NoSel) : ys \in PairArgs, c \in GivenComparers}
UnionMenu == IF K = 0 THEN UnionStages ELSE {}

InitUnion == InitWith(PairSlices)
NextUnion ==
    \/ Construct(UnionMenu)
    \/ Start({0}, 1)
    \/ SourceStep
    \/ StageStep
    \/ ConsumerItem
    \/ ConsumerDone
SpecUnion == InitUnion /\ [][NextUnion]_vars

\* C12: source.Union(sequence).ToSlice() over slice-backed operands is the
\* distinct elements of source in first-occurrence order, followed by the
\* distinct elements of sequence that source does not contain; no two of its
\* elements are equal and every element of either operand has an equal in it.
C12_UnionIsUnion ==
    (Alone("Union") /\ Len(runs) >= 1)
        => LET cmp == stages[1].cmp
               ys == stages[1].ys
               r == runs[1]
           IN  /\ r = FirstOccurrences(xs, cmp)
                        \o SelectSeq(FirstOccurrences(ys, cmp), LAMBDA v : ~Appears(cmp, v, xs))
               /\ \A i, j \in 1..Len(r) : i # j => ~Same(cmp, r[i], r[j])
               /\ \A i \in 1..Len(xs) : Appears(cmp, xs[i], r)
               /\ \A i \in 1..Len(ys) : Appears(cmp, ys[i], r)

C12_Witness ==
    /\ Alone("Union")
    /\ xs = <<2, 2>>
    /\ stages[1].ys = <<2, 1>>
    /\ stages[1].cmp.kind = "none"
    /\ Len(runs) >= 1
    /\ runs[1] = <<2, 1>>

\* ------------------------------------------------------------- Reverse
\* Reverse, alone and over Reverse, and the source as it is (Where with a
\* predicate every element satisfies), over FromSlice(xs), consumed by ToSlice.
ReverseStages == {NoArgs("Reverse"), Stage("Where", 0, Values, <<>>, NoComparer, NoSel)}
ReverseAgain == {NoArgs("Reverse")}
ReverseMenu ==
    IF K = 0
    THEN ReverseStages
    ELSE IF stages[1].op = "Reverse" THEN ReverseAgain ELSE {}

InitReverse == InitWith(Slices)
NextReverse ==
    \/ Construct(ReverseMenu)
    \/ Start({0}, 1)
    \/ SourceStep
    \/ StageStep
    \/ ConsumerItem
    \/ ConsumerDone
SpecReverse == InitReverse /\ [][NextReverse]_vars

\* C13: source.Reverse().Reverse().ToSlice() equals source.ToSlice() for every
\* finite source, the empty one included: the traversal does not panic and
\* collects the elements of the source in their order.
C13_ReverseTwiceIsSource ==
    (K = 2 /\ stages[1].op = "Reverse" /\ stages[2].op = "Reverse")
        => /\ ~Panicked
           /\ Len(runs) >= 1 => runs[1] = xs

\* ------------------------------------------ two sequences: concatenation, Zip
PairStages(op) == {Stage(op, 0, {}, ys, NoComparer, NoSel) : ys \in PairArgs}

\* Concat, Append and Prepend over FromSlice(xs), consumed by ToSlice.
ConcatStages == PairStages("Concat") \cup PairStages("Append") \cup PairStages("Prepend")
ConcatMenu == IF K = 0 THEN ConcatStages ELSE {}

InitConcat == InitWith(PairSlices)
NextConcat ==
    \/ Construct(ConcatMenu)
    \/ Start({0}, 1)
    \/ SourceStep
    \/ StageStep
    \/ ConsumerItem
    \/ ConsumerDone
SpecConcat == InitConcat /\ [][NextConcat]_vars

\* C14: a.Concat(b).ToSlice() and a.Append(vs...).ToSlice() are a's elements
\* followed by b's (or vs) in order, a.Prepend(vs...).ToSlice() is vs followed
\* by a's elements, and the length of each is the sum of the two lengths.
C14_ConcatenationKeepsOrderAndCount ==
    (K = 1 /\ Len(runs) >= 1)
        => /\ stages[1].op \in {"Concat", "Append"} => runs[1] = xs \o stages[1].ys
           /\ stages[1].op = "Prepend" => runs[1] = stages[1].ys \o xs
           /\ Len(runs[1]) = Len(xs) + Len(stages[1].ys)

C14_Witness ==
    /\ Alone("Prepend")
    /\ xs = <<1, 1, 2>>
    /\ stages[1].ys = <<2, 1>>
    /\ Len(runs) >= 1
    /\ runs[1] = <<2, 1, 1, 1, 2>>

\* Zip(FromSlice(xs), FromSlice(ys)), consumed by ToSlice.
ZipStages == PairStages("Zip")
ZipMenu == IF K = 0 THEN ZipStages ELSE {}

InitZip == InitWith(PairSlices)
NextZip ==
    \/ Construct(ZipMenu)
    \/ Start({0}, 1)
    \/ SourceStep
    \/ StageStep
    \/ ConsumerItem
    \/ ConsumerDone
SpecZip == InitZip /\ [][NextZip]_vars

\* C17: Zip(a, b) yields exactly min(len(a), len(b)) pairs, the i-th being
\* (a[i], b[i]); it stops when either side is exhausted and does not fail
\* when the lengths differ.
C17_ZipTruncatesToShorter ==
    Alone("Zip")
        => /\ ~Panicked
           /\ Len(runs) >= 1 =>
                 runs[1] = [i \in 1..Min2(Len(xs), Len(stages[1].ys)) |-> <<xs[i], stages[1].ys[i]>>]

C17_Witness ==
    /\ Alone("Zip")
    /\ xs = <<1, 2, 2>>
    /\ stages[1].ys = <<2, 1>>
    /\ Len(runs) >= 1
    /\ runs[1] = <<<<1, 2>>, <<2, 1>>>>

\* ------------------------------------------------ First, Last, Single
OptionalPredicates == {NoPredicate, NilPredicate} \cup {FuncPredicate(P) : P \in Predicates}
Fallbacks == {Zero, MaxVal}
WithOptionalPredicate(op) ==
    {Terminal(op, p, Zero, <<>>, NoComparer, FALSE) : p \in OptionalPredicates}
WithFallback(op) ==
    {Terminal(op, p, f, <<>>, NoComparer, FALSE) : p \in OptionalPredicates, f \in Fallbacks}

\* FromSlice(xs).Single(predicate...)
SingleMenu == WithOptionalPredicate("Single")
InitSingle == InitWith(Slices)
NextSingle ==
    \/ Call(SingleMenu)
    \/ SourceStep
    \/ TerminalItem
    \/ TerminalDone
SpecSingle == InitSingle /\ [][NextSingle]_vars

\* The elements of the source a predicate argument selects: those it holds
\* for, and all of them when it is omitted or nil.
Matches(s, pred) ==
    IF pred.kind = "func" THEN SelectSeq(s, LAMBDA v : v \in pred.holds) ELSE s

Returns(v, e) == result.value = v /\ result.err = e

\* C18: Single without a predicate or with a nil one returns
\* ErrSourceContainsNoElements for an empty source, ErrSourceHasMoreThanOneElement
\* for two or more elements and the element for exactly one; with a predicate
\* it returns ErrSourceContainsNoElements for an empty source,
\* ErrNoElementSatisfiesTheConditionInPredicate when nothing matches,
\* ErrMoreThanOneElementSatisfiesTheConditionInPredicate for two or more
\* matches and the match for exactly one; with every error the value is zero.
C18_SingleClassifiesOutcome ==
    (term.op = "Single" /\ result.returned)
        => LET m == Matches(xs, term.pred)
           IN  IF term.pred.kind = "func"
               THEN CASE xs = <<>> -> Returns(Zero, ErrSourceContainsNoElements)
                      [] xs # <<>> /\ Len(m) = 0 ->
                            Returns(Zero, ErrNoElementSatisfiesTheConditionInPredicate)
                      [] Len(m) >= 2 ->
                            Returns(Zero, ErrMoreThanOneElementSatisfiesTheConditionInPredicate)
                      [] Len(m) = 1 -> Returns(m[1], ErrNil)
               ELSE CASE Len(xs) = 0 -> Returns(Zero, ErrSourceContainsNoElements)
                      [] Len(xs) >= 2 -> Returns(Zero, ErrSourceHasMoreThanOneElement)
                      [] Len(xs) = 1 -> Returns(xs[1], ErrNil)

C18_Witness ==
    /\ term.op = "Single"
    /\ term.pred = FuncPredicate({1, 2})
    /\ xs = <<3, 1, 2>>
    /\ result.returned
    /\ result.err = ErrMoreThanOneElementSatisfiesTheConditionInPredicate

\* FromSlice(xs).First(predicate...) and FromSlice(xs).Last(predicate...)
FirstLastMenu == WithOptionalPredicate("First") \cup WithOptionalPredicate("Last")
InitFirstLast == InitWith(Slices)
NextFirstLast ==
    \/ Call(FirstLastMenu)
    \/ SourceStep
    \/ TerminalItem
    \/ TerminalDone
SpecFirstLast == InitFirstLast /\ [][NextFirstLast]_vars

\* C19: First and Last return ErrSourceContainsNoElements exactly when the
\* source yields nothing and ErrNoElementSatisfiesTheConditionInPredicate
\* exactly when it yields something but nothing matches; otherwise First
\* returns the earliest and Last the latest match, with a nil error (every
\* element matches when the predicate is omitted or nil).
C19_FirstLastFailureCauses ==
    (term.op \in {"First", "Last"} /\ result.returned)
        => LET m == Matches(xs, term.pred)
           IN  /\ result.err = ErrSourceContainsNoElements <=> xs = <<>>
               /\ result.err = ErrNoElementSatisfiesTheConditionInPredicate <=> (xs # <<>> /\ m = <<>>)
               /\ m # <<>> => Returns(IF term.op = "First" THEN m[1] ELSE m[Len(m)], ErrNil)

C19_Witness ==
    /\ term.op = "First"
    /\ term.pred = FuncPredicate({3})
    /\ xs = <<1, 2>>
    /\ result.returned
    /\ result.err = ErrNoElementSatisfiesTheConditionInPredicate

\* The -OrDefault and -OrFallback variants over FromSlice(xs).
OrElseMenu ==
    WithOptionalPredicate("FirstOrDefault") \cup WithFallback("FirstOrFallback")
        \cup WithOptionalPredicate("LastOrDefault") \cup WithFallback("LastOrFallback")
        \cup WithOptionalPredicate("SingleOrDefault") \cup WithFallback("SingleOrFallback")

InitOrElse == InitWith(Slices)
NextOrElse ==
    \/ Call(OrElseMenu)
    \/ SourceStep
    \/ TerminalItem
    \/ TerminalDone
SpecOrElse == InitOrElse /\ [][NextOrElse]_vars

\* C20: FirstOrDefault, LastOrDefault and SingleOrDefault (zero value) and
\* FirstOrFallback, LastOrFallback and SingleOrFallback (the fallback) return
\* what First, Last and Single return when these succeed (the earliest
\* match, the latest match, the only match), and the zero value or the
\* fallback when these fail: no element, no match, or for Single more than one.
C20_OrElseAgreesWithStrict ==
    (term.op \in {"FirstOrDefault", "FirstOrFallback", "LastOrDefault", "LastOrFallback",
                  "SingleOrDefault", "SingleOrFallback"} /\ result.returned)
        => LET m == Matches(xs, term.pred)
               single == term.op \in {"SingleOrDefault", "SingleOrFallback"}
               first == term.op \in {"FirstOrDefault", "FirstOrFallback"}
               succeeds == IF single THEN Len(m) = 1 ELSE Len(m) >= 1
               orElse == IF term.op \in {"FirstOrDefault", "LastOrDefault", "SingleOrDefault"}
                         THEN Zero ELSE term.fallback
           IN  result.value = IF succeeds THEN (IF first THEN m[1] ELSE m[Len(m)]) ELSE orElse

C20_Witness ==
    /\ term.op = "SingleOrFallback"
    /\ term.pred = NoPredicate
    /\ term.fallback = MaxVal
    /\ xs = <<1, 2>>
    /\ result.returned
    /\ result.value = MaxVal

\* ------------------------------------------------------- SequenceEqual
\* FromSlice(xs).SequenceEqual(FromSlice(ys), comparer...), the comparer
\* omitted, nil or given.
SequenceEqualMenu ==
    {Terminal("SequenceEqual", NoPredicate, Zero, ys, c, FALSE) :
        ys \in PairSlices, c \in {NoComparer, NilComparer, AllEqual}}

InitSequenceEqual == InitWith(PairSlices)
NextSequenceEqual ==
    \/ Call(SequenceEqualMenu)
    \/ SourceStep
    \/ TerminalItem
    \/ TerminalDone
    \/ PullSourceStep
    \/ PullReturn
SpecSequenceEqual == InitSequenceEqual /\ [][NextSequenceEqual]_vars

\* The pushed or the pulled traversal of a terminal operation panicked.
TerminalPanicked == msg.kind = "panic" \/ msg2.kind = "panic"

\* C15: for slice-backed a and b and an explicit or the default equality,
\* a.SequenceEqual(b) is true if and only if a and b have the same length and
\* the elements at every position are equal; with different lengths it is false.
C15_SequenceEqualIsPointwise ==
    (term.op = "SequenceEqual" /\ ~term.self)
        => /\ ~TerminalPanicked
           /\ result.returned =>
                 (result.value <=>
                    /\ Len(xs) = Len(term.ys)
                    /\ \A i \in 1..Len(xs) : Same(term.cmp, xs[i], term.ys[i]))

C15_Witness ==
    /\ term.op = "SequenceEqual"
    /\ ~term.self
    /\ term.cmp = AllEqual
    /\ xs = <<1, 2>>
    /\ term.ys = <<2, 1>>
    /\ result.returned
    /\ result.value = TRUE

\* s.SequenceEqual(s) for s built over FromSlice(xs) by Where, Skip, Take,
\* SkipLast or TakeLast: the pushed and the pulled traversal are invocations
\* of the same function value.
ReflexiveStages ==
    WithPredicate("Where") \cup WithCount("Skip") \cup WithCount("Take")
        \cup WithCount("SkipLast") \cup WithCount("TakeLast")
ReflexiveMenu == IF K = 0 THEN ReflexiveStages ELSE {}
WithItself == {Terminal("SequenceEqual", NoPredicate, Zero, <<>>, NoComparer, TRUE)}

InitReflexive == InitWith(Slices)
NextReflexive ==
    \/ Construct(ReflexiveMenu)
    \/ Call(WithItself)
    \/ SourceStep
    \/ StageStep
    \/ TerminalItem
    \/ TerminalDone
    \/ PullSourceStep
    \/ PullStageStep
    \/ PullReturn
SpecReflexive == InitReflexive /\ [][NextReflexive]_vars

\* C16: s.SequenceEqual(s) returns true for every s built from FromSlice by
\* Where, Skip, Take, SkipLast or TakeLast, with the pushed and the pulled
\* traversal of s interleaved element by element.
C16_SequenceEqualReflexive ==
    (term.op = "SequenceEqual" /\ term.self)
        => /\ ~TerminalPanicked
           /\ result.returned => result.value = TRUE

\* ----------------------------------------------------------- ElementAt
Indexes == (0 - 1)..MaxLen
WithIndex(op) ==
    {WithParam(Terminal(op, NoPredicate, f, <<>>, NoComparer, FALSE), i) :
        i \in Indexes, f \in Fallbacks}
ElementAtMenu ==
    WithIndex("ElementAt") \cup WithIndex("ElementAtOrDefault") \cup WithIndex("ElementAtOrFallback")

InitElementAt == InitWith(Slices)
NextElementAt ==
    \/ Call(ElementAtMenu)
    \/ SourceStep
    \/ TerminalItem
    \/ TerminalDone
SpecElementAt == InitElementAt /\ [][NextElementAt]_vars

\* C21: ElementAt(i) returns the element at zero-based position i with a nil
\* error when 0 <= i < the number of elements, and the zero value with
\* ErrIndexOutOfRange otherwise; ElementAtOrDefault and ElementAtOrFallback
\* return the zero value or the fallback in those cases and the same
\* element otherwise.
C21_ElementAtInRange ==
    (term.op \in {"ElementAt", "ElementAtOrDefault", "ElementAtOrFallback"} /\ result.returned)
        => LET i == term.param
               inRange == 0 <= i /\ i < Len(xs)
           IN  IF inRange
               THEN Returns(xs[i + 1], ErrNil)
               ELSE CASE term.op = "ElementAt" -> Returns(Zero, ErrIndexOutOfRange)
                      [] term.op = "ElementAtOrDefault" -> Returns(Zero, ErrNil)
                      [] term.op = "ElementAtOrFallback" -> Returns(term.fallback, ErrNil)

C21_Witness ==
    /\ term.op = "ElementAt"
    /\ term.param = 2
    /\ xs = <<1, 2, 3>>
    /\ result.returned
    /\ result.value = 3
    /\ result.err = ErrNil

\* ----------------------------------------------------------- Aggregate
Seeds == {Zero, 100}
AggregateMenu ==
    {WithParam(Terminal("Aggregate", NoPredicate, Zero, <<>>, NoComparer, FALSE),
               [seed |-> s, accumulator |-> f, selector |-> g]) :
        s \in Seeds, f \in {"add", "double and add"}, g \in {"none", "halve", "successor"}}

InitAggregate == InitWith(Slices)
NextAggregate ==
    \/ Call(AggregateMenu)
    \/ SourceStep
    \/ TerminalItem
    \/ TerminalDone
SpecAggregate == InitAggregate /\ [][NextAggregate]_vars

\* f(...f(f(seed, s[1]), s[2])..., s[n])
RECURSIVE FoldLeft(_, _, _, _)
FoldLeft(f, seed, s, n) ==
    IF n = 0 THEN seed ELSE Accumulate(f, FoldLeft(f, seed, s, n - 1), s[n])

\* C22: Aggregate returns f(...f(f(seed, x1), x2)..., xn) for the elements
\* x1..xn in source order, the seed itself for an empty source, and the
\* result selector, when one is given, applied once to that value.
C22_AggregateIsLeftFold ==
    (term.op = "Aggregate" /\ result.returned)
        => LET a == term.param
               folded == FoldLeft(a.accumulator, a.seed, xs, Len(xs))
           IN  /\ result.value = IF a.selector = "none" THEN folded ELSE Select1(a.selector, folded)
               /\ (xs = <<>> /\ a.selector = "none") => result.value = a.seed

C22_Witness ==
    /\ term.op = "Aggregate"
    /\ term.param = [seed |-> 100, accumulator |-> "add", selector |-> "halve"]
    /\ xs = <<1, 2, 3>>
    /\ result.returned
    /\ result.value = 53

\* ------------------------------------------------- Min, Max, MinMax, Average
Comparisons == {FuncComparison("ascending"), FuncComparison("descending")}
WithComparison(op) ==
    {WithParam(Terminal(op, NoPredicate, Zero, <<>>, NoComparer, FALSE),
               [compare |-> c, comparable |-> FALSE]) : c \in Comparisons}
        \cup {WithParam(Terminal(op, NoPredicate, Zero, <<>>, NoComparer, FALSE),
                        [compare |-> NoComparison, comparable |-> b]) : b \in BOOLEAN}
OfComparable(op) == {Terminal(op, NoPredicate, Zero, <<>>, NoComparer, FALSE)}
MinMaxMenu ==
    WithComparison("Min") \cup WithComparison("Max") \cup WithComparison("MinMax")
        \cup OfComparable("MinFunc") \cup OfComparable("MaxFunc") \cup OfComparable("MinMaxFunc")
        \cup OfComparable("Average")

InitMinMax == InitWith(Slices)
NextMinMax ==
    \/ Call(MinMaxMenu)
    \/ SourceStep
    \/ TerminalItem
    \/ TerminalDone
SpecMinMax == InitMinMax /\ [][NextMinMax]_vars

\* m is not above any element of s under c, M is not below any.
IsLeast(c, m, s) == \A i \in 1..Len(s) : Compare(c, m, s[i]) <= 0
IsGreatest(c, M, s) == \A i \in 1..Len(s) : Compare(c, M, s[i]) >= 0
WithGivenComparison == term.op \in {"Min", "Max", "MinMax"} /\ term.param.compare.kind = "func"

\* C23: with a three-way comparer cmp of a total order and a non-empty
\* source, Min(cmp) returns an element m with cmp(m, x) <= 0 for every
\* element x, Max(cmp) an element M with cmp(M, x) >= 0 for every x, and
\* MinMax(cmp) the pair (m, M).
C23_MinMaxUnderComparer ==
    (WithGivenComparison /\ result.returned /\ xs # <<>>)
        => /\ result.err = ErrNil
           /\ term.op = "Min" => IsLeast(term.param.compare, result.value, xs)
           /\ term.op = "Max" => IsGreatest(term.param.compare, result.value, xs)
           /\ term.op = "MinMax" => /\ IsLeast(term.param.compare, result.value[1], xs)
                                    /\ IsGreatest(term.param.compare, result.value[2], xs)

\* C24: Min, Max and MinMax, as methods on every path (comparer, Compare
\* method, primitive type) and as top-level functions, and Average return
\* ErrSourceContainsNoElements exactly when the source yields no element,
\* and no error otherwise.
EmptySourceFamily == {"Min", "Max", "MinMax", "MinFunc", "MaxFunc", "MinMaxFunc", "Average"}
C24_EmptySourceError ==
    (term.op \in EmptySourceFamily)
        => /\ ~TerminalPanicked
           /\ result.returned =>
                 /\ (result.err = ErrSourceContainsNoElements) <=> (xs = <<>>)
                 /\ xs # <<>> => result.err = ErrNil
           /\ (msg.kind = "idle" /\ started = 1) => result.returned
C24_Witness ==
    /\ term.op = "Average"
    /\ xs = <<>>
    /\ result.returned
    /\ result.err = ErrSourceContainsNoElements

\* ------------------------------------------------------------- ordering
\* Comparers that find distinct values equal ("parity") and that do not.
OrderComparisons == {NoComparison, FuncComparison("ascending"), FuncComparison("descending"),
                     FuncComparison("parity")}
\* Value selectors of OrderBy: the element itself, its parity, one key for all.
KeySelectors == {NoSel, [v \in Values |-> v % 2], [v \in Values |-> 1]}
OrderStages ==
    {Stage(op, 0, {}, <<>>, c, NoSel) : op \in {"Order", "OrderDescending"}, c \in OrderComparisons}
        \cup {Stage(op, 0, {}, <<>>, c, sel) :
                 op \in {"OrderBy", "OrderByDescending"},
                 c \in {NoComparison, FuncComparison("descending")},
                 sel \in KeySelectors}
OrderMenu == IF K = 0 THEN OrderStages ELSE {}

InitOrder == InitWith(Slices)
NextOrder ==
    \/ Construct(OrderMenu)
    \/ Start({0}, 1)
    \/ SourceStep
    \/ StageStep
    \/ ConsumerItem
    \/ ConsumerDone
SpecOrder == InitOrder /\ [][NextOrder]_vars

\* The ordering the operator st resolves, as a three-way comparison of two
\* source elements: the comparer, else cmp.Compare, on the elements or on
\* their keys, the arguments exchanged by the descending operators.
Resolved(st, x, y) ==
    LET c == IF st.cmp.kind = "func" THEN st.cmp ELSE FuncComparison("ascending")
        a == IF st.op \in {"OrderBy", "OrderByDescending"} THEN st.sel[x] ELSE x
        b == IF st.op \in {"OrderBy", "OrderByDescending"} THEN st.sel[y] ELSE y
    IN  IF st.op \in {"OrderDescending", "OrderByDescending"} THEN Compare(c, b, a) ELSE Compare(c, a, b)

InOrder(st, s) == \A i \in 1..(Len(s) - 1) : Resolved(st, s[i], s[i + 1]) <= 0
Occurrences(s, v) == Cardinality({i \in 1..Len(s) : s[i] = v})
IsPermutation(s, t) == Len(s) = Len(t) /\ \A v \in Values : Occurrences(s, v) = Occurrences(t, v)

\* s is t with the elements that compare equal left in the order of t.
IsStable(st, s, t) ==
    \E q \in Arrangements(Len(t)) :
        /\ s = [i \in 1..Len(t) |-> t[q[i]]]
        /\ \A i, j \in 1..Len(t) : (i < j /\ Resolved(st, t[q[i]], t[q[j]]) = 0) => q[i] < q[j]

\* C25: the output of Order is non-decreasing under the resolved ordering
\* and a permutation of the input; the output of OrderDescending is
\* non-increasing and a permutation of the input.
C25_OrderIsSortedPermutation ==
    ((Alone("Order") \/ Alone("OrderDescending")) /\ Len(runs) >= 1)
        => /\ ~Panicked
           /\ IsPermutation(runs[1], xs)
           /\ InOrder(stages[1], runs[1])
C25_Witness ==
    /\ Alone("OrderDescending")
    /\ stages[1].cmp = NoComparison
    /\ xs = <<1, 3, 2>>
    /\ runs = << <<3, 2, 1>> >>

\* C26: OrderBy and OrderByDescending, and Order and OrderDescending with a
\* comparer, are stable: elements whose keys compare equal come out in the
\* order they came in.
C26_OrderingIsStable ==
    (/\ K = 1
     /\ \/ stages[1].op \in {"OrderBy", "OrderByDescending"}
        \/ stages[1].op \in {"Order", "OrderDescending"} /\ stages[1].cmp.kind = "func"
     /\ Len(runs) >= 1)
        => IsStable(stages[1], runs[1], xs)

\* ------------------------------------------------------- a nil comparer
\* The operators with an optional comparer, each with the comparer omitted
\* and with an explicit nil, over FromSlice(xs): the operators that return
\* an iterator are consumed by ToSlice.
NilStages ==
    {Stage(op, 0, {}, <<>>, c, NoSel) : op \in {"Distinct"}, c \in {NoComparer, NilComparer}}
        \cup {Stage(op, 0, {}, ys, c, NoSel) :
                 op \in {"Union", "Except", "Intersect"}, ys \in PairArgs, c \in {NoComparer, NilComparer}}
        \cup {Stage(op, 0, {}, <<>>, c, NoSel) :
                 op \in {"Order", "OrderDescending"}, c \in {NoComparison, NilComparison}}
NilMenu == IF K = 0 THEN NilStages ELSE {}
NilTerminals ==
    {WithParam(Terminal(op, NoPredicate, Zero, <<>>, NoComparer, FALSE),
               [compare |-> c, comparable |-> FALSE]) :
        op \in {"Min", "Max", "MinMax"}, c \in {NoComparison, NilComparison}}
NilTerminalMenu == IF K = 0 THEN NilTerminals ELSE {}

InitNil == InitWith(PairSlices)
NextNil ==
    \/ Construct(NilMenu)
    \/ Start({0}, 1)
    \/ SourceStep
    \/ StageStep
    \/ ConsumerItem
    \/ ConsumerDone
    \/ Call(NilTerminalMenu)
    \/ TerminalItem
    \/ TerminalDone
SpecNil == InitNil /\ [][NextNil]_vars

\* What the operator st over the slice s yields when its comparer is omitted.
WithoutComparer(st, s) ==
    CASE st.op = "Distinct" -> FirstOccurrences(s, NoComparer)
      [] st.op = "Union" ->
            FirstOccurrences(s, NoComparer)
                \o SelectSeq(FirstOccurrences(st.ys, NoComparer), LAMBDA v : ~Appears(NoComparer, v, s))
      [] st.op \in {"Except", "Intersect"} ->
            SelectSeq(FirstOccurrences(s, NoComparer), LAMBDA v : Appears(NoComparer, v, st.ys))
      [] st.op = "Order" -> sort(s)
      [] st.op = "OrderDescending" -> sortDescending(s)

\* What Min, Max and MinMax return for the slice s when the comparer is omitted.
Least(s) == CHOOSE m \in Values : Appears(NoComparer, m, s) /\ \A i \in 1..Len(s) : m <= s[i]
Greatest(s) == CHOOSE m \in Values : Appears(NoComparer, m, s) /\ \A i \in 1..Len(s) : m >= s[i]
ExtremeWithoutComparer(op, s) ==
    CASE op = "Min" -> Least(s)
      [] op = "Max" -> Greatest(s)
      [] op = "MinMax" -> <<Least(s), Greatest(s)>>

\* C27: a call with an explicit nil comparer never calls the nil function
\* and returns what the call without a comparer returns, for Distinct,
\* Union, Except, Intersect, Order and OrderDescending consumed by ToSlice
\* and for Min, Max and MinMax.
C27_NilComparerAsOmitted ==
    /\ (K = 1 /\ stages[1].cmp.kind \in {"none", "nil"})
          => /\ ~Panicked
             /\ Len(runs) >= 1 => runs[1] = WithoutComparer(stages[1], xs)
    /\ (term.op \in {"Min", "Max", "MinMax"} /\ term.param.compare.kind \in {"none", "nil"})
          => /\ ~TerminalPanicked
             /\ (result.returned /\ xs = <<>>) => result.err = ErrSourceContainsNoElements
             /\ (result.returned /\ xs # <<>>) =>
                   Returns(ExtremeWithoutComparer(term.op, xs), ErrNil)

\* ------------------------------------------------------ Range and Repeat
Starts == 1..MaxArg
GeneratorCounts == (0 - 1)..MaxLen
Ranges == {Generator("Range", a, n) : a \in Starts, n \in GeneratorCounts}
Repeats == {Generator("Repeat", e, n) : e \in Starts, n \in GeneratorCounts}
Generators == Ranges \cup Repeats
\* The consumer ranges to the end (0) or stops at its first or second element.
SomeBudgets == 0..MaxRuns

\* Range(start, count) or Repeat(element, count), ranged over MaxRuns times.
InitGenerator == InitOver({<<>>}, Generators)
NextGenerator ==
    \/ Begin(SomeBudgets, MaxRuns)
    \/ GeneratorStep
    \/ ConsumerItem
    \/ ConsumerDone
SpecGenerator == InitGenerator /\ [][NextGenerator]_vars

\* The sequence that the arguments of Range or Repeat describe.
Generated(g) ==
    [i \in 1..(IF g.args[2] > 0 THEN g.args[2] ELSE 0) |->
        IF g.kind = "Range" THEN g.args[1] + i - 1 ELSE g.args[1]]

\* What a consumer with the budget b receives of the sequence s.
Received(s, b) == IF b = 0 \/ b >= Len(s) THEN s ELSE SubSeq(s, 1, b)

\* C28: every traversal of the iterator that Range(start, count) or
\* Repeat(element, count) returned yields the sequence the arguments
\* describe, whether or not an earlier traversal ran to the end or was
\* stopped early.
C28_GeneratorsAreRestartable ==
    (gen.kind # "none" /\ K = 0 /\ msg.kind = "idle" /\ Len(runs) >= 1)
        => runs[Len(runs)] = Received(Generated(gen), budget)

\* ------------------------------------------------- operators over Range
OverRangeStages ==
    {Stage(op, n, {}, <<>>, NoComparer, NoSel) : op \in {"TakeLast", "SkipLast"}, n \in Counts}
        \cup {Stage(op, 0, {}, ys, NoComparer, NoSel) :
                 op \in {"Union", "Except", "Intersect"}, ys \in ArgSlices}
OverRangeMenu == IF K = 0 THEN OverRangeStages ELSE {}

InitOverRange == InitOver({<<>>}, Ranges)
NextOverRange ==
    \/ Construct(OverRangeMenu)
    \/ Start({0}, 1)
    \/ GeneratorStep
    \/ StageStep
    \/ ConsumerItem
    \/ ConsumerDone
SpecOverRange == InitOverRange /\ [][NextOverRange]_vars

\* The last n elements of s, and s without them.
LastOf(s, n) == SubSeq(s, Len(s) - Min2(IF n > 0 THEN n ELSE 0, Len(s)) + 1, Len(s))
WithoutLast(s, n) == SubSeq(s, 1, Len(s) - Min2(IF n > 0 THEN n ELSE 0, Len(s)))

\* C29: over Range(start, count), TakeLast(n) yields the last min(n, count)
\* values, SkipLast(n) yields all but the last n, and Union, Except and
\* Intersect yield what they yield over the slice of the same values.
C29_OperatorsOverRange ==
    (gen.kind = "Range" /\ K = 1 /\ Len(runs) >= 1)
        => /\ ~Panicked
           /\ runs[1] = CASE stages[1].op = "TakeLast" -> LastOf(Generated(gen), stages[1].arg)
                           [] stages[1].op = "SkipLast" -> WithoutLast(Generated(gen), stages[1].arg)
                           [] OTHER -> WithoutComparer(stages[1], Generated(gen))

\* ------------------------------------------------------------------ Take
\* C30: in the first traversal of FromSlice(xs).Take(n), FromSlice never
\* emits more than max(n, 0) elements, and when xs has more than n elements
\* it has emitted exactly max(n, 0) of them once the traversal is over.
C30_TakePullsNoMoreThanCount ==
    (Alone("Take") /\ started = 1)
        => LET n == IF stages[1].arg > 0 THEN stages[1].arg ELSE 0
           IN  /\ emitted <= n
               /\ (Len(runs) = 1 /\ Len(xs) > n) => emitted = n

====
